---------------------------- MODULE Spec2Model ----------------------------
(***************************************************************************)
(* LegalEyes: the AI-response parser, the markdown renderer, the clause    *)
(* filter, the terms-and-conditions extractor, the PDF reader, the popup   *)
(* with its pop-out window, the context-menu trigger, the button feedback  *)
(* and the options page.                                                   *)
(*                                                                         *)
(* Text is a sequence of characters.  A character is a one-character       *)
(* string (" ", "\n", "*", "-", "_", a letter; "bq" stands for the         *)
(* backquote) or a literal word that the program's regular expressions     *)
(* only ever match as a whole ("Severity:", "High", "1. SUMMARY:", ...),   *)
(* and markup is text that also holds tags ("<br>", "<strong>", ...).      *)
(***************************************************************************)
EXTENDS Integers, Sequences, FiniteSets, TLC

VARIABLES
    mdText,      \* the argument of convertMarkdownToHtml
    mdHtml,      \* its result
    mdAgain,     \* the result of converting mdHtml once more
    mdPlain,     \* getPlainText(mdHtml)
    mdPc,        \* "text" before the conversion, "html" after it
    response,    \* the text handed to parseAIResponse
    parsePc,     \* "called", then "returned", or "threw" if an exception left it
    parseResult, \* the object parseAIResponse returned
    parseBlocks, \* what its loop found in each block of the clauses section
    items,          \* the .concerning-item elements: severity and category of each
    controlsHidden, \* whether #filter-controls is hidden
    activeButtons,  \* the filter buttons that carry the class active
    filteredOut,    \* the items that carry the class filtered-out
    lastFilter,     \* the filter clicked last, "all" after setupFiltering
    exPc,           \* where extractTermsAndConditions stands
    exTried,        \* the strategies it has evaluated, in order
    exResult,       \* what it returned
    exResponses,    \* the responses sent to the extractTC request
    isLikelyTCPage, \* title or URL holds a legal keyword
    selectorMatches, \* per known selector, the elements matching it in document order
    containers,     \* per common container, the text the scan read from it
    bodyText,       \* the text the body fallback read
    headingsLeft,   \* the headings the scan has not come to yet
    iframesLeft,    \* the iframes the scan has not come to yet
    iframeWarnings, \* the console.warn calls of the iframe scan, one per iframe that failed
    pdfPages,       \* the pages of the PDF document: their text items, or where they fail
    pdfPc,          \* where getTextFromPdfUrl stands
    pdfPageNum,     \* pageNum of its loop
    pdfFullText,    \* fullText
    pdfResult,      \* what it returned
    runs,           \* the analyses triggered in the popup, one record per trigger
    currentAnalysisResult, \* the popup's variable of that name
    resultsDiv,     \* #results: whether it is hidden, and the result it renders
    errorDiv,       \* #error: whether it is hidden, and its textContent
    consoleLog,     \* the triggers, displays and errors in the order of the console
    loadingDiv,     \* #loading: whether it is hidden
    popoutData,     \* the value stored under the key popoutData
    setCalls,       \* the values storage.local.set has written, in order
    popoutClicks,   \* the pop-out click handlers that have started
    popoutWindows,  \* the pop-out windows that have been created
    popoutBtnDisabled, \* popoutBtn.disabled
    errorTimers,    \* the 3 s timers of the pop-out warning that have not fired
    apiKey,         \* the value stored under the key apiKey, <<>> when there is none
    selectedText,   \* the value stored under the key selectedText: the click it is from
    contextMenuClicked, \* the value stored under the key contextMenuClicked
    menuClicks,     \* the context-menu clicks so far
    popupOpens,     \* the times the popup has been opened
    popupPc,        \* where the popup page stands, "closed" when there is none
    processed,      \* the selections handed to processSelectedText, in order
    copyBtn,        \* the copy button: its textContent and whether it is disabled
    copyClicks,     \* the clicks on it so far
    clipboardWrites, \* the navigator.clipboard.writeText calls that have not settled
    feedbackTimers, \* the timers of showFeedback that have not fired: their originalText
    apiKeyInput,    \* the value of the #api-key input of the options page
    maskedKey,      \* maskedKey of the options page, <<>> when no key was stored
    statusDiv,      \* #status of the options page: its textContent and its type
    optionsPc       \* where the options page stands

mdVars == <<mdText, mdHtml, mdAgain, mdPlain, mdPc>>

parseVars == <<response, parsePc, parseResult, parseBlocks>>

filterVars == <<items, controlsHidden, activeButtons, filteredOut, lastFilter>>

extractVars == <<exPc, exTried, exResult, exResponses, isLikelyTCPage, selectorMatches,
                 containers, bodyText,
                 headingsLeft, iframesLeft, iframeWarnings>>

pdfVars == <<pdfPages, pdfPc, pdfPageNum, pdfFullText, pdfResult>>

popupVars == <<runs, currentAnalysisResult, resultsDiv, errorDiv, consoleLog, loadingDiv>>

popoutVars == <<popoutData, setCalls, popoutClicks, popoutWindows, popoutBtnDisabled,
                errorTimers>>

selVars == <<selectedText, contextMenuClicked, menuClicks, popupOpens, popupPc, processed>>

feedbackVars == <<copyBtn, copyClicks, clipboardWrites, feedbackTimers>>

optionsVars == <<apiKeyInput, maskedKey, statusDiv, optionsPc>>

auxVars == <<apiKey, selVars, feedbackVars, optionsVars>>

flowVars == <<pdfVars, popupVars, popoutVars, auxVars>>

vars == <<mdText, mdHtml, mdAgain, mdPlain, mdPc,
          response, parsePc, parseResult, parseBlocks,
          items, controlsHidden, activeButtons, filteredOut, lastFilter,
          exPc, exTried, exResult, exResponses, isLikelyTCPage, selectorMatches,
          containers, bodyText,
          headingsLeft, iframesLeft, iframeWarnings,
          pdfPages, pdfPc, pdfPageNum, pdfFullText, pdfResult,
          runs, currentAnalysisResult, resultsDiv, errorDiv, consoleLog, loadingDiv,
          popoutData, setCalls, popoutClicks, popoutWindows, popoutBtnDisabled, errorTimers,
          apiKey, selectedText, contextMenuClicked, menuClicks, popupOpens, popupPc,
          processed, copyBtn, copyClicks, clipboardWrites, feedbackTimers,
          apiKeyInput, maskedKey, statusDiv, optionsPc>>

NONE == <<"none">>

\* a length not read yet
NotRead == -1

Range(f) == {f[i] : i \in DOMAIN f}

(***************************************************************************)
(* Strings                                                                 *)
(***************************************************************************)
BQ == "bq"

\* const x = e; ...: F applied to the value of e
Bind(e, F(_)) == CHOOSE r \in {F(x) : x \in {e}} : TRUE

IsWs(c) == c \in {" ", "\n"}

IsLineTerminator(c) == c = "\n"

RECURSIVE TrimStart(_)
TrimStart(s) ==
    IF s # <<>> /\ IsWs(Head(s)) THEN TrimStart(Tail(s)) ELSE s

RECURSIVE TrimEnd(_)
TrimEnd(s) ==
    IF s # <<>> /\ IsWs(s[Len(s)]) THEN TrimEnd(SubSeq(s, 1, Len(s) - 1)) ELSE s

Trim(s) == Bind(TrimStart(s), LAMBDA t : TrimEnd(t))

StartsWithAt(s, p, lit) ==
    /\ p >= 1
    /\ p + Len(lit) - 1 <= Len(s)
    /\ SubSeq(s, p, p + Len(lit) - 1) = lit

StartsWith(s, lit) == StartsWithAt(s, 1, lit)

\* String.prototype.split('\n'): the pieces between the newlines, empty ones kept
RECURSIVE SplitLines(_, _)
SplitLines(s, cur) ==
    IF s = <<>> THEN <<cur>>
    ELSE IF Head(s) = "\n" THEN <<cur>> \o SplitLines(Tail(s), <<>>)
    ELSE SplitLines(Tail(s), Append(cur, Head(s)))

\* Array.prototype.join(sep)
RECURSIVE Join(_, _)
Join(parts, sep) ==
    IF parts = <<>> THEN <<>>
    ELSE IF Len(parts) = 1 THEN parts[1]
    ELSE parts[1] \o sep \o Join(Tail(parts), sep)

RECURSIVE Concat(_)
Concat(parts) == IF parts = <<>> THEN <<>> ELSE Head(parts) \o Concat(Tail(parts))

\* the first e >= from with s[e] = c, no s[e'] in stop before it; 0 if there is none
RECURSIVE FindChar(_, _, _, _)
FindChar(s, from, c, stop) ==
    IF from > Len(s) THEN 0
    ELSE IF s[from] = c THEN from
    ELSE IF s[from] \in stop THEN 0
    ELSE FindChar(s, from + 1, c, stop)

\* the first e >= from with s[e] = s[e+1] = c on the line of from; 0 if there is none
RECURSIVE FindPair(_, _, _)
FindPair(s, from, c) ==
    IF from + 1 > Len(s) THEN 0
    ELSE IF s[from] = c /\ s[from + 1] = c THEN from
    ELSE IF IsLineTerminator(s[from]) THEN 0
    ELSE FindPair(s, from + 1, c)

(***************************************************************************)
(* MarkdownRenderer: convertMarkdownToHtml                                 *)
(***************************************************************************)
\* .replace(/\*\*(.*?)\*\*/g, '<strong>$1</strong>') and the same with __
RECURSIVE ReplaceBold(_, _, _)
ReplaceBold(s, p, c) ==
    IF p > Len(s) THEN <<>>
    ELSE IF StartsWithAt(s, p, <<c, c>>)
         THEN Bind(FindPair(s, p + 2, c), LAMBDA e :
                  IF e # 0
                  THEN <<"<strong>">> \o SubSeq(s, p + 2, e - 1) \o <<"</strong>">>
                           \o ReplaceBold(s, e + 2, c)
                  ELSE <<s[p]>> \o ReplaceBold(s, p + 1, c))
         ELSE <<s[p]>> \o ReplaceBold(s, p + 1, c)

\* .replace(/(?<![\*_])\*([^\*]+)\*(?![\*_])/g, '<em>$1</em>') and the same with _
RECURSIVE ReplaceItalic(_, _, _)
ReplaceItalic(s, p, c) ==
    IF p > Len(s) THEN <<>>
    ELSE IF s[p] = c /\ (p = 1 \/ s[p - 1] \notin {"*", "_"})
         THEN Bind(FindChar(s, p + 1, c, {}), LAMBDA e :
                  IF e > p + 1 /\ (e = Len(s) \/ s[e + 1] \notin {"*", "_"})
                  THEN <<"<em>">> \o SubSeq(s, p + 1, e - 1) \o <<"</em>">>
                           \o ReplaceItalic(s, e + 1, c)
                  ELSE <<s[p]>> \o ReplaceItalic(s, p + 1, c))
         ELSE <<s[p]>> \o ReplaceItalic(s, p + 1, c)

\* .replace(/BQ([^BQ]+?)BQ/g, '<code>$1</code>'), BQ the backquote character
RECURSIVE ReplaceCode(_, _)
ReplaceCode(s, p) ==
    IF p > Len(s) THEN <<>>
    ELSE IF s[p] = BQ
         THEN Bind(FindChar(s, p + 1, BQ, {}), LAMBDA e :
                  IF e > p + 1
                  THEN <<"<code>">> \o SubSeq(s, p + 1, e - 1) \o <<"</code>">>
                           \o ReplaceCode(s, e + 1)
                  ELSE <<s[p]>> \o ReplaceCode(s, p + 1))
         ELSE <<s[p]>> \o ReplaceCode(s, p + 1)

StripListMarker(line) ==
    IF StartsWith(line, <<"*", " ">>) \/ StartsWith(line, <<"-", " ">>)
    THEN SubSeq(line, 3, Len(line))
    ELSE line

ProcessLine(line) ==
    Bind(StripListMarker(Trim(line)), LAMBDA l0 :
    Bind(ReplaceBold(l0, 1, "*"),     LAMBDA l1 :
    Bind(ReplaceBold(l1, 1, "_"),     LAMBDA l2 :
    Bind(ReplaceItalic(l2, 1, "*"),   LAMBDA l3 :
    Bind(ReplaceItalic(l3, 1, "_"),   LAMBDA l4 :
    ReplaceCode(l4, 1))))))

NonEmptyLines(lines) == SelectSeq(lines, LAMBDA l : Len(l) > 0)

AllLines(lines) == lines

KeptLines(lines) == NonEmptyLines(lines)

convertMarkdownToHtml(text) ==
    IF text = <<>> THEN <<>>
    ELSE Bind(SplitLines(text, <<>>), LAMBDA lines :
         Bind([i \in 1..Len(lines) |-> ProcessLine(lines[i])], LAMBDA processedLines :
         Join(KeptLines(processedLines), <<"<br>">>)))

(***************************************************************************)
(* MarkdownRenderer, inverse direction: getPlainText                       *)
(***************************************************************************)
Tags == {"<br>", "<strong>", "</strong>", "<em>", "</em>", "<code>", "</code>",
         "<ul>", "</ul>", "<li>", "</li>", "<p>", "</p>"}

\* tempDiv.textContent with the <br> elements left as they are
RECURSIVE TextContentOnly(_)
TextContentOnly(html) ==
    IF html = <<>> THEN <<>>
    ELSE IF Head(html) \in {"<br>", "<strong>", "</strong>", "<em>", "</em>", "<code>",
                            "</code>", "<ul>", "</ul>", "<li>", "</li>", "<p>", "</p>"}
         THEN TextContentOnly(Tail(html))
    ELSE <<Head(html)>> \o TextContentOnly(Tail(html))

\* tempDiv.innerHTML = htmlString; every <br> replaced by '\n'; tempDiv.textContent
RECURSIVE TextContentBr(_)
TextContentBr(html) ==
    IF html = <<>> THEN <<>>
    ELSE IF Head(html) = "<br>" THEN <<"\n">> \o TextContentBr(Tail(html))
    ELSE IF Head(html) \in Tags THEN TextContentBr(Tail(html))
    ELSE <<Head(html)>> \o TextContentBr(Tail(html))

\* .replace(/\n{3,}/g, '\n\n')
RECURSIVE CollapseNewlines(_, _)
CollapseNewlines(s, run) ==
    IF s = <<>> THEN <<>>
    ELSE IF Head(s) = "\n"
         THEN IF run >= 2 THEN CollapseNewlines(Tail(s), run + 1)
              ELSE <<"\n">> \o CollapseNewlines(Tail(s), run + 1)
         ELSE <<Head(s)>> \o CollapseNewlines(Tail(s), 0)

getPlainText(htmlString) ==
    IF htmlString = <<>> THEN <<>>
    ELSE Bind(TextContentBr(htmlString), LAMBDA text :
         Bind(CollapseNewlines(text, 0), LAMBDA collapsed : Trim(collapsed)))

(***************************************************************************)
(* ResponseParser: parseAIResponse                                         *)
(***************************************************************************)
LowerOf ==
    ("1. SUMMARY:" :> "1. summary:") @@
    ("2. CONCERNING CLAUSES:" :> "2. concerning clauses:") @@
    ("LOW" :> "low") @@
    ("Severity:" :> "severity:") @@ ("SEVERITY:" :> "severity:") @@
    ("High" :> "high") @@ ("HIGH" :> "high") @@
    ("Medium" :> "medium") @@ ("Low" :> "low") @@
    ("Category:" :> "category:") @@ ("Privacy" :> "privacy") @@
    ("Data" :> "data") @@ ("Usage" :> "usage") @@
    ("Legal" :> "legal") @@ ("Rights" :> "rights") @@
    ("Service" :> "service") @@ ("Changes" :> "changes") @@
    ("User" :> "user") @@ ("Content" :> "content")

toLowerCase(c) == IF c \in DOMAIN LowerOf THEN LowerOf[c] ELSE c

\* a literal of a regular expression with the i flag, matched at position p
MatchI(s, p, lit) ==
    /\ p >= 1
    /\ p + Len(lit) - 1 <= Len(s)
    /\ \A i \in 1..Len(lit) : toLowerCase(s[p + i - 1]) = toLowerCase(lit[i])

\* the first position >= from where the literal matches; 0 if there is none
RECURSIVE SearchI(_, _, _)
SearchI(s, from, lit) ==
    IF from + Len(lit) - 1 > Len(s) THEN 0
    ELSE IF MatchI(s, from, lit) THEN from
    ELSE SearchI(s, from + 1, lit)

\* \s* from p: the first position >= p that holds no whitespace
RECURSIVE SkipWs(_, _)
SkipWs(s, p) ==
    IF p <= Len(s) /\ IsWs(s[p]) THEN SkipWs(s, p + 1) ELSE p

\* .* from p: the last position of the line that p is on (p - 1 if it is empty)
RECURSIVE LineEnd(_, _)
LineEnd(s, p) ==
    IF p > Len(s) \/ IsLineTerminator(s[p]) THEN p - 1 ELSE LineEnd(s, p + 1)

\* ^ with the m flag
AtLineStart(s, p) == p = 1 \/ IsLineTerminator(s[p - 1])

\* $ with the m flag, after position k
AtLineEnd(s, k) == k = Len(s) \/ IsLineTerminator(s[k + 1])

NULL == <<"null">>

NoMatch == [matched |-> FALSE, group0 |-> <<>>, group1 |-> <<>>]

SummaryMarker == <<"*", "*", "1. SUMMARY:", "*", "*">>

ClausesMarkerOpen == <<"*", "*", "2. CONCERNING CLAUSES:">>

ClausesMarker == <<"*", "*", "2. CONCERNING CLAUSES:", "*", "*">>

\* aiResponse.match(/\*\*1\. SUMMARY:\*\*([\s\S]*?)(?=\*\*2\. CONCERNING CLAUSES:|$)/i)
summaryMatch(aiResponse) ==
    Bind(SearchI(aiResponse, 1, SummaryMarker), LAMBDA p :
    Bind(SearchI(aiResponse, p + Len(SummaryMarker), ClausesMarkerOpen), LAMBDA e :
        LET a == p + Len(SummaryMarker)
            z == IF e = 0 THEN Len(aiResponse) ELSE e - 1
        IN  IF p = 0 THEN NoMatch
            ELSE [matched |-> TRUE,
                  group0  |-> SubSeq(aiResponse, p, z),
                  group1  |-> SubSeq(aiResponse, a, z)]))

\* summaryText.match(/^[\*\-]\s+(.*)/gm): the matched substrings, in order
RECURSIVE bulletPoints(_, _)
bulletPoints(s, p) ==
    IF p > Len(s) THEN <<>>
    ELSE IF /\ AtLineStart(s, p)
            /\ s[p] \in {"*", "-"}
            /\ p + 1 <= Len(s)
            /\ IsWs(s[p + 1])
         THEN Bind(SkipWs(s, p + 1), LAMBDA b :
              Bind(LineEnd(s, b), LAMBDA e :
                  <<SubSeq(s, p, e)>> \o bulletPoints(s, e + 1)))
         ELSE bulletPoints(s, p + 1)

\* bullet.replace(/^[\*\-]\s+/, '').trim()
RemoveMarker(bullet) ==
    IF Len(bullet) >= 2 /\ bullet[1] \in {"*", "-"} /\ IsWs(bullet[2])
    THEN Bind(SkipWs(bullet, 2), LAMBDA b : Trim(SubSeq(bullet, b, Len(bullet))))
    ELSE Trim(bullet)

DefaultSummary == <<"<p>", "Summary could not be parsed.", "</p>">>

Paragraph(summaryText) == <<"<p>">> \o convertMarkdownToHtml(summaryText) \o <<"</p>">>

ListItems(formattedBullets) ==
    Concat([i \in 1..Len(formattedBullets) |->
                <<"<li>">> \o formattedBullets[i] \o <<"</li>">>])

\* the summary parsing with the whole text taken when the marker is missing
ParseSummaryOfAnyText(aiResponse) ==
    Bind(summaryMatch(aiResponse), LAMBDA m :
        Paragraph(Trim(IF m.matched THEN m.group1 ELSE aiResponse)))

\* the summary parsing of parseAIResponse
ParseSummary(aiResponse) ==
    Bind(summaryMatch(aiResponse), LAMBDA m :
    Bind(Trim(m.group1), LAMBDA summaryText :
    Bind(bulletPoints(summaryText, 1), LAMBDA bullets :
    Bind([i \in 1..Len(bullets) |-> RemoveMarker(bullets[i])], LAMBDA stripped :
    Bind(SelectSeq(stripped, LAMBDA b : Len(b) > 0), LAMBDA nonEmpty :
    Bind([i \in 1..Len(nonEmpty) |-> convertMarkdownToHtml(nonEmpty[i])],
         LAMBDA formattedBullets :
        IF m.matched /\ m.group1 # <<>>
        THEN IF Len(bullets) > 0 /\ Len(formattedBullets) > 0
             THEN <<"<ul>">> \o ListItems(formattedBullets) \o <<"</ul>">>
             ELSE Paragraph(summaryText)
        ELSE DefaultSummary))))))

\* aiResponse.match(/\*\*2\. CONCERNING CLAUSES:\*\*([\s\S]*)/i)
clausesMatchWholeText(aiResponse) ==
    Bind(SearchI(aiResponse, 1, ClausesMarker), LAMBDA p :
        IF p = 0
        THEN [matched |-> TRUE, group0 |-> aiResponse, group1 |-> aiResponse]
        ELSE [matched |-> TRUE,
              group0  |-> SubSeq(aiResponse, p, Len(aiResponse)),
              group1  |-> SubSeq(aiResponse, p + Len(ClausesMarker), Len(aiResponse))])

clausesMatch(aiResponse) ==
    Bind(SearchI(aiResponse, 1, ClausesMarker), LAMBDA p :
        IF p = 0 THEN NoMatch
        ELSE [matched |-> TRUE,
              group0  |-> SubSeq(aiResponse, p, Len(aiResponse)),
              group1  |-> SubSeq(aiResponse, p + Len(ClausesMarker), Len(aiResponse))])

\* \s*\*\*(.*?)\*\* matched at position a
BoldAt(s, a) ==
    Bind(SkipWs(s, a), LAMBDA b :
    Bind(IF StartsWithAt(s, b, <<"*", "*">>) THEN FindPair(s, b + 2, "*") ELSE 0,
         LAMBDA e :
        IF e = 0 THEN NoMatch
        ELSE [matched |-> TRUE,
              group0  |-> SubSeq(s, a, e + 1),
              group1  |-> SubSeq(s, b + 2, e - 1)]))

\* [\*\-]?\s*\*\*(.*?)\*\* matched at position q: the optional marker is tried
\* first, and the match without it only when that fails
TitleAt(s, q) ==
    Bind(IF q <= Len(s) /\ s[q] \in {"*", "-"} THEN BoldAt(s, q + 1) ELSE NoMatch,
         LAMBDA withMarker :
        IF withMarker.matched
        THEN [withMarker EXCEPT !.group0 = <<s[q]>> \o withMarker.group0]
        ELSE BoldAt(s, q))

\* clausesText.split(/(?=^[\*\-]?\s*\*\*.*?\*\*)/m): cut before every position
\* but the first where a line starts with a title
RECURSIVE SplitBlocks(_, _, _)
SplitBlocks(s, p, q) ==
    IF q > Len(s) THEN <<SubSeq(s, p, Len(s))>>
    ELSE IF q > 1 /\ AtLineStart(s, q) /\ TitleAt(s, q).matched
         THEN <<SubSeq(s, p, q - 1)>> \o SplitBlocks(s, q, q + 1)
         ELSE SplitBlocks(s, p, q + 1)

SeverityValues == {"high", "medium", "low"}

\* trimmedBlock.match(/Severity:\s*(High|Medium|Low)/i)
RECURSIVE severityMatch(_, _)
severityMatch(s, from) ==
    Bind(SearchI(s, from, <<"Severity:">>), LAMBDA p :
    Bind(SkipWs(s, p + 1), LAMBDA b :
        IF p = 0 THEN NoMatch
        ELSE IF b <= Len(s) /\ toLowerCase(s[b]) \in SeverityValues
             THEN [matched |-> TRUE, group0 |-> SubSeq(s, p, b), group1 |-> <<s[b]>>]
             ELSE severityMatch(s, p + 1)))

TwoWordCategories ==
    {<<"data", "usage">>, <<"legal", "rights">>, <<"service", "changes">>,
     <<"user", "content">>}

\* (Privacy|Data\sUsage|Legal\sRights|Service\sChanges|User\sContent) at b:
\* the number of characters matched, 0 if none
CategoryLen(s, b) ==
    IF b > Len(s) THEN 0
    ELSE IF toLowerCase(s[b]) = "privacy" THEN 1
    ELSE IF /\ b + 2 <= Len(s)
            /\ IsWs(s[b + 1])
            /\ <<toLowerCase(s[b]), toLowerCase(s[b + 2])>> \in TwoWordCategories
         THEN 3
         ELSE 0

SeverityLen(s, b) ==
    IF b <= Len(s) /\ toLowerCase(s[b]) \in SeverityValues THEN 1 ELSE 0

\* trimmedBlock.match(/Category:\s*(Privacy|Data\sUsage|...)/i)
RECURSIVE categoryMatch(_, _)
categoryMatch(s, from) ==
    Bind(SearchI(s, from, <<"Category:">>), LAMBDA p :
    Bind(SkipWs(s, p + 1), LAMBDA b :
    Bind(CategoryLen(s, b), LAMBDA n :
        IF p = 0 THEN NoMatch
        ELSE IF n > 0
             THEN [matched |-> TRUE, group0 |-> SubSeq(s, p, b + n - 1),
                   group1 |-> SubSeq(s, b, b + n - 1)]
             ELSE categoryMatch(s, p + 1))))

\* .replace(/\s+/g, '-').toLowerCase(), as one string
RECURSIVE Hyphenate(_)
Hyphenate(s) ==
    IF s = <<>> THEN ""
    ELSE IF IsWs(Head(s)) THEN "-" \o Hyphenate(TrimStart(s))
    ELSE toLowerCase(Head(s)) \o Hyphenate(Tail(s))

SeverityOrNull(block) ==
    Bind(severityMatch(block, 1), LAMBDA m :
        IF m.matched THEN toLowerCase(m.group1[1]) ELSE "null")

SeverityOf(block) ==
    Bind(severityMatch(block, 1), LAMBDA m :
        IF m.matched THEN toLowerCase(m.group1[1]) ELSE "medium")

CategoryOf(block) ==
    Bind(categoryMatch(block, 1), LAMBDA m :
        IF m.matched THEN Hyphenate(m.group1) ELSE "general")

\* \s*Severity:\s*(High|Medium|Low)\s*$ (kind "severity") or
\* \s*Category:\s*(Privacy|...)\s*$ (kind "category") matched at the line start p:
\* the last position of the match, 0 if there is none
NoLabelLineEnd(s, p, kind) == 0

LabelLineEnd(s, p, kind) ==
    Bind(SkipWs(s, p), LAMBDA a :
    Bind(SkipWs(s, a + 1), LAMBDA b :
    Bind(IF MatchI(s, a, IF kind = "severity" THEN <<"Severity:">> ELSE <<"Category:">>)
         THEN IF kind = "severity" THEN SeverityLen(s, b) ELSE CategoryLen(s, b)
         ELSE 0, LAMBDA n :
        IF n = 0 THEN 0
        ELSE Bind(SkipWs(s, b + n) - 1, LAMBDA r :
             Bind({k \in (b + n - 1)..r : AtLineEnd(s, k)}, LAMBDA ends :
                 IF ends = {} THEN 0
                 ELSE CHOOSE k \in ends : \A j \in ends : j <= k)))))

\* .replace(/^\s*Severity:\s*(High|Medium|Low)\s*$/gim, '') for kind "severity",
\* .replace(/^\s*Category:\s*(Privacy|...)\s*$/gim, '') for kind "category"
RECURSIVE RemoveLabelLines(_, _, _)
RemoveLabelLines(s, p, kind) ==
    IF p > Len(s) THEN <<>>
    ELSE IF AtLineStart(s, p)
         THEN Bind(LabelLineEnd(s, p, kind), LAMBDA e :
                  IF e > 0 THEN RemoveLabelLines(s, e + 1, kind)
                  ELSE <<s[p]>> \o RemoveLabelLines(s, p + 1, kind))
         ELSE <<s[p]>> \o RemoveLabelLines(s, p + 1, kind)

\* one turn of the loop over validBlocks
AdmitUntitled(title, text) == text # <<>>

Admitted(title, text) == title # NULL /\ title # <<>> /\ text # <<>>

AnalyzeBlock(block) ==
    Bind(Trim(block), LAMBDA trimmedBlock :
    Bind(TitleAt(trimmedBlock, 1), LAMBDA titleMatch :
    Bind(IF titleMatch.matched THEN Trim(titleMatch.group1) ELSE NULL, LAMBDA title :
    Bind(IF titleMatch.matched
         THEN SubSeq(trimmedBlock, Len(titleMatch.group0) + 1, Len(trimmedBlock))
         ELSE trimmedBlock, LAMBDA afterTitle :
    Bind(RemoveLabelLines(afterTitle, 1, "severity"), LAMBDA withoutSeverity :
    Bind(RemoveLabelLines(withoutSeverity, 1, "category"), LAMBDA textContent :
    Bind(Trim(textContent), LAMBDA cleanedTextContent :
    Bind(convertMarkdownToHtml(cleanedTextContent), LAMBDA text :
        [block    |-> trimmedBlock,
         title    |-> title,
         text     |-> text,
         severity |-> SeverityOf(trimmedBlock),
         category |-> CategoryOf(trimmedBlock),
         admitted |-> Admitted(title, text)]))))))))

Clause(b) == [title |-> b.title, text |-> b.text, severity |-> b.severity,
              category |-> b.category]

\* the comparator of concerningClauses.sort
compareUnordered(a, b) == 0

\* a comparator that also puts medium before low
SeverityRank(severity) ==
    IF severity = "high" THEN 0 ELSE IF severity = "medium" THEN 1 ELSE 2

compareByRank(a, b) == SeverityRank(a.severity) - SeverityRank(b.severity)

compareSeverity(a, b) ==
    IF a.severity = "high" /\ b.severity # "high" THEN -1
    ELSE IF a.severity # "high" /\ b.severity = "high" THEN 1
    ELSE 0

\* Array.prototype.sort(compare), a stable sort
RECURSIVE InsertStable(_, _)
InsertStable(sorted, x) ==
    IF sorted # <<>> /\ compareSeverity(sorted[Len(sorted)], x) > 0
    THEN Bind(InsertStable(SubSeq(sorted, 1, Len(sorted) - 1), x), LAMBDA front :
              Append(front, sorted[Len(sorted)]))
    ELSE Append(sorted, x)

RECURSIVE SortFrom(_, _)
SortFrom(done, rest) ==
    IF rest = <<>> THEN done
    ELSE Bind(InsertStable(done, Head(rest)), LAMBDA next : SortFrom(next, Tail(rest)))

ArraySort(arr) == Bind(arr, LAMBDA a : SortFrom(<<>>, a))

\* the blocks the loop of parseAIResponse goes through, each with what it finds
ValidBlocks(aiResponse) ==
    Bind(clausesMatch(aiResponse), LAMBDA m :
    Bind(Trim(m.group1), LAMBDA clausesText :
    Bind(SplitBlocks(clausesText, 1, 1), LAMBDA clauseBlocks :
    Bind(SelectSeq(clauseBlocks, LAMBDA b : Len(Trim(b)) > 0), LAMBDA validBlocks :
        IF m.matched /\ m.group1 # <<>>
        THEN [i \in 1..Len(validBlocks) |-> AnalyzeBlock(validBlocks[i])]
        ELSE <<>>))))

ParseClauses(aiResponse) ==
    Bind(ValidBlocks(aiResponse), LAMBDA blocks :
    Bind(SelectSeq(blocks, LAMBDA b : b.admitted), LAMBDA admitted :
    Bind([i \in 1..Len(admitted) |-> Clause(admitted[i])], LAMBDA concerningClauses :
        IF Len(concerningClauses) > 1 THEN ArraySort(concerningClauses)
        ELSE concerningClauses)))

\* the body of the try block; a response that is no string has no match method
TryParse(aiResponse) ==
    IF aiResponse = NULL
    THEN [threw |-> TRUE, summary |-> DefaultSummary, concerningClauses |-> <<>>]
    ELSE [threw |-> FALSE, summary |-> ParseSummary(aiResponse),
          concerningClauses |-> ParseClauses(aiResponse)]

parseAIResponse(aiResponse) ==
    Bind(TryParse(aiResponse), LAMBDA r :
        [returned |-> TRUE, summary |-> r.summary,
         concerningClauses |-> r.concerningClauses])

(***************************************************************************)
(* The renderer applied to every text of at most MaxMdLen characters       *)
(***************************************************************************)
MaxMdLen == 4

MdChars == {"a", " ", "\n", "*", "_", BQ, "-"}

RECURSIVE SeqsUpTo(_, _)
SeqsUpTo(S, n) ==
    IF n = 0 THEN {<<>>}
    ELSE LET shorter == SeqsUpTo(S, n - 1)
         IN  shorter \cup {Append(s, c) : s \in {t \in shorter : Len(t) = n - 1}, c \in S}

MdIdle ==
    /\ mdText = <<>>
    /\ mdHtml = NONE
    /\ mdAgain = NONE
    /\ mdPlain = NONE
    /\ mdPc = "idle"

ParseIdle ==
    /\ response = NULL
    /\ parsePc = "idle"
    /\ parseResult = NONE
    /\ parseBlocks = <<>>

FilterIdle ==
    /\ items = <<>>
    /\ controlsHidden = TRUE
    /\ activeButtons = {}
    /\ filteredOut = {}
    /\ lastFilter = "all"

\* extractTermsAndConditions has not returned
NotReturned == [from |-> "pending"]

ExtractIdle ==
    /\ exPc = "idle"
    /\ exTried = <<>>
    /\ exResult = NotReturned
    /\ exResponses = <<>>
    /\ isLikelyTCPage = FALSE
    /\ selectorMatches = <<>>
    /\ containers = <<>>
    /\ bodyText = NotRead
    /\ headingsLeft = 0
    /\ iframesLeft = 0
    /\ iframeWarnings = 0

PdfIdle ==
    /\ pdfPages = <<>>
    /\ pdfPc = "idle"
    /\ pdfPageNum = 0
    /\ pdfFullText = <<>>
    /\ pdfResult = NONE

\* null where an analysis result may stand
NoResult == [null |-> TRUE]

PopupIdle ==
    /\ runs = <<>>
    /\ currentAnalysisResult = NoResult
    /\ resultsDiv = [hidden |-> TRUE, result |-> NoResult]
    /\ errorDiv = [hidden |-> TRUE, textContent |-> <<>>]
    /\ consoleLog = <<>>
    /\ loadingDiv = [hidden |-> TRUE]

PopoutIdle ==
    /\ popoutData = NoResult
    /\ setCalls = <<>>
    /\ popoutClicks = <<>>
    /\ popoutWindows = <<>>
    /\ popoutBtnDisabled = FALSE
    /\ errorTimers = 0

\* no selection is stored
NoSelection == 0

SelIdle ==
    /\ selectedText = NoSelection
    /\ contextMenuClicked = FALSE
    /\ menuClicks = 0
    /\ popupOpens = 0
    /\ popupPc = "closed"
    /\ processed = <<>>

\* the label of the copy button before any feedback
ButtonLabel == "Copy Summary"

FeedbackIdle ==
    /\ copyBtn = [textContent |-> ButtonLabel, disabled |-> FALSE]
    /\ copyClicks = 0
    /\ clipboardWrites = 0
    /\ feedbackTimers = <<>>

OptionsIdle ==
    /\ apiKeyInput = <<>>
    /\ maskedKey = <<>>
    /\ statusDiv = [textContent |-> "", type |-> ""]
    /\ optionsPc = "closed"

AuxIdle == apiKey = <<>> /\ SelIdle /\ FeedbackIdle /\ OptionsIdle

FlowIdle == PdfIdle /\ PopupIdle /\ PopoutIdle /\ AuxIdle

InitMd ==
    /\ mdText \in SeqsUpTo(MdChars, MaxMdLen)
    /\ mdHtml = NONE
    /\ mdAgain = NONE
    /\ mdPlain = NONE
    /\ mdPc = "text"
    /\ ParseIdle
    /\ FilterIdle
    /\ ExtractIdle
    /\ FlowIdle

MdConvert ==
    /\ mdPc = "text"
    /\ mdHtml' = convertMarkdownToHtml(mdText)
    /\ mdPc' = "html"
    /\ UNCHANGED <<mdText, mdAgain, mdPlain, parseVars, filterVars, extractVars, flowVars>>

MdGetPlainText ==
    /\ mdPc = "html"
    /\ mdPlain = NONE
    /\ mdPlain' = getPlainText(mdHtml)
    /\ UNCHANGED <<mdText, mdHtml, mdAgain, mdPc, parseVars, filterVars, extractVars, flowVars>>

MdConvertAgain ==
    /\ mdPc = "html"
    /\ mdAgain = NONE
    /\ mdAgain' = convertMarkdownToHtml(mdHtml)
    /\ UNCHANGED <<mdText, mdHtml, mdPlain, mdPc, parseVars, filterVars, extractVars, flowVars>>

NextMd == MdConvert \/ MdGetPlainText \/ MdConvertAgain

SpecMarkdown == InitMd /\ [][NextMd]_vars

(***************************************************************************)
(* The parser applied to model responses: a summary section of at most     *)
(* MaxSummaryLines lines and a clauses section of at most MaxClauseParts   *)
(* parts, either of which may be missing                                   *)
(***************************************************************************)
MaxSummaryLines == 2

MaxClauseParts == 3

SummaryLines ==
    { <<"\n", "*", " ", "a">>,                          \* a bullet
      <<"\n", "-", " ", "*", "*", "a", "*", "*">>,      \* a bullet in bold
      <<"\n", "*", " ">>,                               \* a bullet with nothing in it
      <<"\n", "b">>,                                    \* a line that is no bullet
      <<"\n", "*", "*", "T", "*", "*", " ", "b">>,      \* a bold title and text
      <<"\n", "Severity:", " ", "High">> }

ClauseParts ==
    { <<"\n", "*", "*", "T", "*", "*", " ", "b", "\n", "Severity:", " ", "b">>,
      <<"\n", "*", "*", "U", "*", "*", "\n", "c", "\n", "Severity:", " ", "High",
        "\n", "Category:", " ", "Legal", " ", "Rights">>,
      <<"\n", "*", " ", "*", "*", "V", "*", "*", " ", "c", "\n", "SEVERITY:", "Low">>,
      <<"\n", "*", "*", "W", "*", "*">>,                \* a title and no text
      <<"\n", "*", "*", " ", "*", "*", "b">>,           \* a blank title
      <<"\n", "b">>,                                    \* text and no title
      <<"\n", "No concerning clauses found.">>,
      <<"\n", "Severity:", " ", "HIGH">>,
      <<"\n", "Category:", " ", "Data", " ", "Usage">> }

SummarySections ==
    {<<>>} \cup {SummaryMarker \o Concat(ls) : ls \in SeqsUpTo(SummaryLines, MaxSummaryLines)}

ClauseSections ==
    {<<>>} \cup {<<"\n">> \o ClausesMarker \o Concat(ps) :
                    ps \in SeqsUpTo(ClauseParts, MaxClauseParts)}

FewSummarySections ==
    { <<>>,
      <<"b", "\n", "*", " ", "a">>,
      <<"*", "*", "1. summary:", "*", "*", "\n", "*", " ", "a">> }

FewClauseSections ==
    { <<>>,
      \* two labels on lines of their own, then a label broken after its colon
      <<"\n">> \o ClausesMarker
          \o <<"\n", "*", "*", "U", "*", "*", "\n", "c", "\n", "Severity:", " ", "High",
               "\n", "Category:", " ", "Legal", " ", "Rights">>
          \o <<"\n", "*", "*", "T", "*", "*", " ", "b", "\n", "Severity:", "\n", "Low">>,
      <<"\n">> \o ClausesMarkerOpen \o <<"\n", "*", "*", "T", "*", "*", " ", "b">>,
      <<"\n", "*", "*", "2. concerning clauses:", "*", "*", "\n", "*", "*", "T", "*", "*",
        " ", "b", "\n", "Severity:", " ", "Medium">> }

Responses ==
    {NULL}
        \cup {s \o c : s \in SummarySections, c \in FewClauseSections}
        \cup {s \o c : s \in FewSummarySections, c \in ClauseSections}

Init ==
    /\ response \in Responses
    /\ parsePc = "called"
    /\ parseResult = NONE
    /\ parseBlocks = <<>>
    /\ MdIdle
    /\ FilterIdle
    /\ ExtractIdle
    /\ FlowIdle

ParseAI ==
    /\ parsePc = "called"
    /\ LET r == parseAIResponse(response)
       IN  /\ parsePc' = IF r.returned THEN "returned" ELSE "threw"
           /\ parseResult' = r
    /\ parseBlocks' = IF response = NULL THEN <<>> ELSE ValidBlocks(response)
    /\ UNCHANGED <<response, mdVars, filterVars, extractVars, flowVars>>

Next == ParseAI

Spec == Init /\ [][Next]_vars

(***************************************************************************)
(* ClausePresenter: displayResults and setupFiltering                      *)
(***************************************************************************)
MaxItems == 2

\* the values of data-filter on the filter buttons
FilterTypes ==
    {"all", "high", "medium", "low", "privacy", "data-usage", "legal-rights",
     "service-changes", "user-content"}

\* severity and category of the clauses a result may hold
ClauseKinds ==
    { [severity |-> "high", category |-> "privacy"],
      [severity |-> "medium", category |-> "privacy"],
      [severity |-> "low", category |-> "data-usage"],
      [severity |-> "medium", category |-> "general"] }

\* the body of the click listener: whether the item is shown under the filter
showItemAlways(filterType, item) == TRUE

showItem(filterType, item) ==
    IF filterType = "all" THEN TRUE
    ELSE IF filterType \in {"high", "medium", "low"} THEN item.severity = filterType
    ELSE item.category = filterType

\* the buttons that are active after a click on button
activeAlso(active, button) == active \cup {button}

activeAfterClick(active, button) == (active \ FilterTypes) \cup {button}

InitFilter ==
    /\ items = <<>>
    /\ controlsHidden = TRUE
    /\ activeButtons \in {{}, {"all"}}
    /\ filteredOut = {}
    /\ lastFilter = "all"
    /\ MdIdle
    /\ ParseIdle
    /\ ExtractIdle
    /\ FlowIdle

\* displayResults: the clause items, #filter-controls, and setupFiltering()
RenderClauses(clauses) ==
    /\ items' = clauses
    /\ IF Len(clauses) > 0
       THEN /\ controlsHidden' = FALSE
            /\ activeButtons' = {"all"}
            /\ filteredOut' = {}
            /\ lastFilter' = "all"
       ELSE /\ controlsHidden' = TRUE
            /\ filteredOut' = {}
            /\ UNCHANGED <<activeButtons, lastFilter>>

\* displayResults(result, ...) and the setupFiltering() it ends with
DisplayResults(clauses) ==
    /\ RenderClauses(clauses)
    /\ UNCHANGED <<mdVars, parseVars, extractVars, flowVars>>

\* the click listener of a filter button
FilterClick(button) ==
    /\ ~controlsHidden
    /\ activeButtons' = activeAfterClick(activeButtons, button)
    /\ filteredOut' = {i \in DOMAIN items : ~showItem(button, items[i])}
    /\ lastFilter' = button
    /\ UNCHANGED <<items, controlsHidden, mdVars, parseVars, extractVars, flowVars>>

NextFilter ==
    \/ \E clauses \in SeqsUpTo(ClauseKinds, MaxItems) : DisplayResults(clauses)
    \/ \E button \in FilterTypes : FilterClick(button)

SpecFilter == InitFilter /\ [][NextFilter]_vars

(***************************************************************************)
(* TextExtractor: extractTermsAndConditions                                *)
(*                                                                         *)
(* An element is the length of its cleaned text; the text returned is      *)
(* recorded with the strategy and the element it came from.                *)
(***************************************************************************)
NumSelectors == 2       \* known selectors, in the order of possibleSelectors

MaxMatches == 2         \* elements that match one selector

MaxHeadings == 1

MaxSiblings == 1

MaxIframes == 1

SelectorMinLen == 500

ParentMinLen == 1000

ParentMaxLen == 100000

SiblingsMaxLen == 100000

SiblingsMinLen == 500

IframeMinLen == 1000

ContainerMinLen == 1000

BodyMinLen == 1500

NumContainers == 6

NoText == [from |-> "none", elem |-> 0, len |-> 0, script |-> FALSE]

StrategyOrder == <<"selector", "heading", "iframe", "container", "body">>

SelectorLens == {SelectorMinLen, 600}

\* a heading: whether its text holds a keyword, the cleaned text of its parent
\* and whether that still holds the heading's text, and the elements after it
HeadingSiblings ==
    [tag : {"P", "SCRIPT", "H2"}, len : {300, SiblingsMinLen + 1, SiblingsMaxLen}]

Headings ==
    [keyword  : BOOLEAN,
     parent   : {ParentMinLen, ParentMinLen + 1, ParentMaxLen},
     includes : BOOLEAN,
     siblings : SeqsUpTo(HeadingSiblings, MaxSiblings)]

IframeLens == {IframeMinLen, IframeMinLen + 1}

ContainerLens == {0, ContainerMinLen, ContainerMinLen + 1}   \* 0: no such element

BodyLens == {1200, BodyMinLen, BodyMinLen + 1}

\* getTextContentWithoutScriptsStyles(node) of element elem reached by a strategy:
\* the script and style elements are removed from the clone before its
\* textContent is read, so whatever they hold is not in the text
getTextContentWithoutScriptsStyles(strategy, elem, len) ==
    [from |-> strategy, elem |-> elem, len |-> len, script |-> FALSE]

\* iframe.contentDocument.body.textContent with runs of white space collapsed:
\* the text of the script and style elements of the document stays in it
FrameContentClean(elem, len, script) ==
    [from |-> "iframe", elem |-> elem, len |-> len, script |-> script]

\* elementText.length > 500
SelectorAccepts(len) == len > SelectorMinLen

\* the loop over possibleSelectors: document.querySelector gives the first
\* element that matches, and the first selector whose element is long enough wins
RECURSIVE SelectorScan(_, _)
SelectorScan(matches, i) ==
    IF i > Len(matches) THEN NoText
    ELSE IF matches[i] # <<>> /\ SelectorAccepts(matches[i][1])
         THEN getTextContentWithoutScriptsStyles("selector", i, matches[i][1])
         ELSE SelectorScan(matches, i + 1)

\* the walk over the elements after a heading: the length of content.trim()
RECURSIVE SiblingWalk(_, _, _, _)
SiblingWalk(siblings, k, collectedLength, contentLen) ==
    IF k > Len(siblings) \/ siblings[k].tag = "H2" \/ collectedLength >= SiblingsMaxLen
    THEN IF contentLen > 0 THEN contentLen - 2 ELSE 0
    ELSE IF siblings[k].tag # "SCRIPT"
         THEN SiblingWalk(siblings, k + 1, collectedLength + siblings[k].len,
                          contentLen + siblings[k].len + 2)
         ELSE SiblingWalk(siblings, k + 1, collectedLength, contentLen)

\* one heading of the loop over the headings
HeadingCheck(h, i) ==
    LET content == SiblingWalk(h.siblings, 1, 0, 0)
    IN  IF ~h.keyword THEN NoText
        ELSE IF h.parent > ParentMinLen /\ h.parent < ParentMaxLen /\ h.includes
             THEN getTextContentWithoutScriptsStyles("heading", i, h.parent)
        ELSE IF content > SiblingsMinLen
             THEN getTextContentWithoutScriptsStyles("heading", i, content)
        ELSE NoText

\* the loop over commonContainers
RECURSIVE ContainerScan(_, _)
ContainerScan(found, i) ==
    IF i > Len(found) THEN NoText
    ELSE IF found[i] > ContainerMinLen
         THEN getTextContentWithoutScriptsStyles("container", i, found[i])
         ELSE ContainerScan(found, i + 1)

InitExtract ==
    /\ exPc = "selectors"
    /\ exTried = <<>>
    /\ exResult = NotReturned
    /\ exResponses = <<>>
    /\ isLikelyTCPage \in BOOLEAN
    /\ selectorMatches \in [1..NumSelectors -> SeqsUpTo(SelectorLens, MaxMatches)]
    /\ containers = <<>>
    /\ bodyText = NotRead
    /\ headingsLeft \in 0..MaxHeadings
    /\ iframesLeft \in 0..MaxIframes
    /\ iframeWarnings = 0
    /\ MdIdle
    /\ ParseIdle
    /\ FilterIdle
    /\ FlowIdle

Return(text) ==
    /\ exResult' = text
    /\ exPc' = "done"

\* the fallbacks tried on any page
AlwaysFallBack == "containers"

\* after the iframe scan: the fallbacks are only for a page that looks like T&C
AfterIframes == IF isLikelyTCPage THEN "containers" ELSE "null"

ExtractSelectors ==
    /\ exPc = "selectors"
    /\ exTried' = Append(exTried, "selector")
    /\ LET hit == SelectorScan(selectorMatches, 1)
       IN  IF hit # NoText THEN Return(hit)
           ELSE exPc' = "headings" /\ UNCHANGED exResult
    /\ UNCHANGED <<exResponses, isLikelyTCPage, selectorMatches, iframesLeft, headingsLeft>>
    /\ UNCHANGED <<containers, bodyText, mdVars, parseVars, filterVars, flowVars, iframeWarnings>>

ExtractHeadings ==
    /\ exPc = "headings"
    /\ exTried' = Append(exTried, "heading")
    /\ exPc' = "heading"
    /\ UNCHANGED <<exResult, exResponses, isLikelyTCPage, selectorMatches, iframesLeft,
                   headingsLeft>>
    /\ UNCHANGED <<containers, bodyText, mdVars, parseVars, filterVars, flowVars, iframeWarnings>>

HeadingVisited ==
    /\ exPc = "heading"
    /\ headingsLeft > 0
    /\ \E heading \in Headings :
           LET hit == HeadingCheck(heading, headingsLeft)
           IN  IF hit # NoText
               THEN Return(hit) /\ UNCHANGED headingsLeft
               ELSE headingsLeft' = headingsLeft - 1 /\ UNCHANGED <<exPc, exResult>>
    /\ UNCHANGED <<exTried, exResponses, isLikelyTCPage, selectorMatches, iframesLeft>>
    /\ UNCHANGED <<containers, bodyText, mdVars, parseVars, filterVars, flowVars, iframeWarnings>>

\* no heading is left: the loop ends
HeadingsDone ==
    /\ exPc = "heading"
    /\ headingsLeft = 0
    /\ exPc' = "iframes"
    /\ UNCHANGED <<exTried, exResult, exResponses, isLikelyTCPage, selectorMatches,
                   iframesLeft, headingsLeft>>
    /\ UNCHANGED <<containers, bodyText, mdVars, parseVars, filterVars, flowVars, iframeWarnings>>

ExtractIframes ==
    /\ exPc = "iframes"
    /\ exTried' = Append(exTried, "iframe")
    /\ exPc' = "awaiting"
    /\ UNCHANGED <<exResult, exResponses, isLikelyTCPage, selectorMatches, iframesLeft, headingsLeft>>
    /\ UNCHANGED <<containers, bodyText, mdVars, parseVars, filterVars, flowVars, iframeWarnings>>

IframeLoaded ==
    /\ exPc = "awaiting"
    /\ iframesLeft > 0
    /\ \E frameContentClean \in IframeLens, script \in BOOLEAN :
           IF frameContentClean > IframeMinLen /\ isLikelyTCPage
           THEN /\ Return(FrameContentClean(iframesLeft, frameContentClean, script))
                /\ UNCHANGED iframesLeft
           ELSE /\ iframesLeft' = iframesLeft - 1
                /\ UNCHANGED <<exPc, exResult>>
    /\ UNCHANGED <<exTried, exResponses, isLikelyTCPage, selectorMatches, headingsLeft>>
    /\ UNCHANGED <<containers, bodyText, mdVars, parseVars, filterVars, flowVars, iframeWarnings>>

\* a promise with neither the timer nor a rejection: it stays pending
IframeNeverSettles ==
    /\ exPc = "awaiting"
    /\ iframesLeft > 0
    /\ exPc' = "pending"
    /\ UNCHANGED <<exTried, exResult, exResponses, isLikelyTCPage, selectorMatches,
                   headingsLeft, iframesLeft, iframeWarnings>>
    /\ UNCHANGED <<containers, bodyText, mdVars, parseVars, filterVars, flowVars>>

\* the timeout fires first, or the iframe has no content document: it rejects
IframeFailed ==
    /\ exPc = "awaiting"
    /\ iframesLeft > 0
    /\ iframesLeft' = iframesLeft - 1
    /\ iframeWarnings' = iframeWarnings + 1
    /\ UNCHANGED <<exPc, exTried, exResult, exResponses, isLikelyTCPage, selectorMatches,
                   headingsLeft>>
    /\ UNCHANGED <<containers, bodyText, mdVars, parseVars, filterVars, flowVars>>

\* no iframe is left: the loop ends
IframesDone ==
    /\ exPc = "awaiting"
    /\ iframesLeft = 0
    /\ exPc' = AfterIframes
    /\ UNCHANGED <<exTried, exResult, exResponses, isLikelyTCPage, selectorMatches,
                   iframesLeft, headingsLeft>>
    /\ UNCHANGED <<containers, bodyText, mdVars, parseVars, filterVars, flowVars, iframeWarnings>>

ExtractContainers ==
    /\ exPc = "containers"
    /\ exTried' = Append(exTried, "container")
    /\ \E found \in [1..NumContainers -> ContainerLens] :
           /\ containers' = found
           /\ LET hit == ContainerScan(found, 1)
              IN  IF hit # NoText THEN Return(hit)
                  ELSE exPc' = "body" /\ UNCHANGED exResult
    /\ UNCHANGED <<exResponses, isLikelyTCPage, selectorMatches, iframesLeft, headingsLeft>>
    /\ UNCHANGED <<bodyText, mdVars, parseVars, filterVars, flowVars, iframeWarnings>>

ExtractBody ==
    /\ exPc = "body"
    /\ exTried' = Append(exTried, "body")
    /\ \E text \in BodyLens :
           /\ bodyText' = text
           /\ IF text > BodyMinLen
              THEN Return(getTextContentWithoutScriptsStyles("body", 1, text))
              ELSE exPc' = "null" /\ UNCHANGED exResult
    /\ UNCHANGED <<exResponses, isLikelyTCPage, selectorMatches, iframesLeft, headingsLeft>>
    /\ UNCHANGED <<containers, mdVars, parseVars, filterVars, flowVars, iframeWarnings>>

\* return null
ExtractNothing ==
    /\ exPc = "null"
    /\ Return(NoText)
    /\ UNCHANGED <<exTried, exResponses, isLikelyTCPage, selectorMatches, iframesLeft, headingsLeft>>
    /\ UNCHANGED <<containers, bodyText, mdVars, parseVars, filterVars, flowVars, iframeWarnings>>

\* the onMessage listener's then: sendResponse({ text: tcText })
SendResponse ==
    /\ exPc = "done"
    /\ exResponses' = Append(exResponses, exResult)
    /\ exPc' = "responded"
    /\ UNCHANGED <<exTried, exResult, isLikelyTCPage, selectorMatches, iframesLeft, headingsLeft>>
    /\ UNCHANGED <<containers, bodyText, mdVars, parseVars, filterVars, flowVars, iframeWarnings>>

NextExtract ==
    \/ ExtractSelectors
    \/ ExtractHeadings
    \/ HeadingVisited
    \/ HeadingsDone
    \/ ExtractIframes
    \/ IframeLoaded
    \/ IframeFailed
    \/ IframesDone
    \/ ExtractContainers
    \/ ExtractBody
    \/ ExtractNothing
    \/ SendResponse

SpecExtract == InitExtract /\ [][NextExtract]_vars

\* the iframe scan of a page on which no selector matches an element: the page
\* has at most MaxScanned iframes
MaxScanned == 2

InitScan ==
    /\ exPc = "selectors"
    /\ exTried = <<>>
    /\ exResult = NotReturned
    /\ exResponses = <<>>
    /\ isLikelyTCPage \in BOOLEAN
    /\ selectorMatches = [i \in 1..NumSelectors |-> <<>>]
    /\ containers = <<>>
    /\ bodyText = NotRead
    /\ headingsLeft \in 0..MaxHeadings
    /\ iframesLeft \in 0..MaxScanned
    /\ iframeWarnings = 0
    /\ MdIdle
    /\ ParseIdle
    /\ FilterIdle
    /\ FlowIdle

\* where the extraction stands: every step changes it
exPosition == <<exPc, headingsLeft, iframesLeft>>

\* every step is a continuation the event loop runs when the promise it awaits
\* has settled, and the promise of an iframe settles by its load event or, after
\* timeoutMs, by its timer: a step that can be taken is taken
SpecScanFair == InitScan /\ [][NextExtract]_vars /\ WF_exPosition(NextExtract)

(***************************************************************************)
(* getTextFromPdfUrl: the PDF at the URL is fetched, loaded with PDF.js and *)
(* read page by page                                                       *)
(***************************************************************************)
MaxPages == 3

\* the text items of a page that can be read, or the call that fails on it
PageItems == {<<>>, <<"a">>, <<"b", "c">>}

PdfPagePool ==
    {[fails |-> "none", items |-> it] : it \in PageItems}
        \cup {[fails |-> f, items |-> <<>>] : f \in {"getPage", "getTextContent"}}

\* `[Error extracting text from page ${pageNum}]`
Placeholder(pageNum) == "[Error extracting text from page " \o ToString(pageNum) \o "]"

\* textContent.items.forEach: the strings of the items with a space between them
RECURSIVE PageText(_)
PageText(textItems) ==
    IF textItems = <<>> THEN <<>>
    ELSE IF Len(textItems) = 1 THEN <<Head(textItems)>>
    ELSE <<Head(textItems), " ">> \o PageText(Tail(textItems))

\* the catch block of the loop leaves the page out
SkipPage(fullText, pageNum) == fullText

\* the catch block of the loop
OnPageError(fullText, pageNum) == fullText \o <<Placeholder(pageNum), "\n", "\n">>

\* what the loop does once the page is behind it: the next page, or the return
PdfAfterPage(fullText) ==
    /\ pdfFullText' = fullText
    /\ IF pdfPageNum < Len(pdfPages)
       THEN pdfPageNum' = pdfPageNum + 1 /\ pdfPc' = "getPage" /\ UNCHANGED pdfResult
       ELSE pdfPc' = "returned" /\ pdfResult' = Trim(fullText) /\ UNCHANGED pdfPageNum

InitPdf ==
    /\ pdfPages \in SeqsUpTo(PdfPagePool, MaxPages)
    /\ pdfPc = "loadPdfJs"
    /\ pdfPageNum = 0
    /\ pdfFullText = <<>>
    /\ pdfResult = NONE
    /\ PopupIdle
    /\ PopoutIdle
    /\ AuxIdle
    /\ MdIdle
    /\ ParseIdle
    /\ FilterIdle
    /\ ExtractIdle

PdfUnchanged == UNCHANGED <<pdfPages, mdVars, parseVars, filterVars, extractVars,
                            popupVars, popoutVars, auxVars>>

\* await loadPdfJs(): the library is there, or the import failed and
\* "Could not load PDF processing library." leaves the function
PdfLibraryLoaded ==
    /\ pdfPc = "loadPdfJs"
    /\ \E loaded \in BOOLEAN :
           IF loaded
           THEN pdfPc' = "fetch" /\ UNCHANGED pdfResult
           ELSE /\ pdfPc' = "threw"
                /\ pdfResult' = <<"Could not load PDF processing library.">>
    /\ UNCHANGED <<pdfPageNum, pdfFullText>>
    /\ PdfUnchanged

\* await fetch(pdfUrl), response.ok, await response.arrayBuffer()
PdfFetched ==
    /\ pdfPc = "fetch"
    /\ \E outcome \in {"ok", "Failed to fetch", "HTTP error! status: "} :
           IF outcome = "ok"
           THEN pdfPc' = "getDocument" /\ UNCHANGED pdfResult
           ELSE pdfPc' = "threw" /\ pdfResult' = <<"Failed to process PDF: ", outcome>>
    /\ UNCHANGED <<pdfPageNum, pdfFullText>>
    /\ PdfUnchanged

\* await loadingTask.promise, let fullText = "", the loop is entered
PdfDocumentLoaded ==
    /\ pdfPc = "getDocument"
    /\ \E loaded \in BOOLEAN :
           IF ~loaded
           THEN /\ pdfPc' = "threw"
                /\ pdfResult' = <<"Failed to process PDF: ", "Invalid PDF structure.">>
                /\ UNCHANGED <<pdfPageNum, pdfFullText>>
           ELSE IF Len(pdfPages) >= 1
                THEN /\ pdfPageNum' = 1
                     /\ pdfPc' = "getPage"
                     /\ UNCHANGED <<pdfFullText, pdfResult>>
                ELSE /\ pdfPc' = "returned"
                     /\ pdfResult' = Trim(<<>>)
                     /\ UNCHANGED <<pdfPageNum, pdfFullText>>
    /\ PdfUnchanged

\* await pdfDocument.getPage(pageNum)
PdfGotPage ==
    /\ pdfPc = "getPage"
    /\ IF pdfPages[pdfPageNum].fails = "getPage"
       THEN PdfAfterPage(OnPageError(pdfFullText, pdfPageNum))
       ELSE pdfPc' = "getTextContent" /\ UNCHANGED <<pdfPageNum, pdfFullText, pdfResult>>
    /\ PdfUnchanged

\* await page.getTextContent(), and the rest of the turn of the loop
PdfGotTextContent ==
    /\ pdfPc = "getTextContent"
    /\ IF pdfPages[pdfPageNum].fails = "getTextContent"
       THEN PdfAfterPage(OnPageError(pdfFullText, pdfPageNum))
       ELSE PdfAfterPage(pdfFullText \o Trim(PageText(pdfPages[pdfPageNum].items))
                             \o <<"\n", "\n">>)
    /\ PdfUnchanged

NextPdf ==
    \/ PdfLibraryLoaded
    \/ PdfFetched
    \/ PdfDocumentLoaded
    \/ PdfGotPage
    \/ PdfGotTextContent

SpecPdf == InitPdf /\ [][NextPdf]_vars

(***************************************************************************)
(* The popup: the summarize button, the context-menu selection,            *)
(* processWithAI and displayResults.  Every trigger starts a handler of    *)
(* its own; the handlers take turns at their awaits.                       *)
(***************************************************************************)
MaxRuns == 2

\* extractedText.length > 100
MinTextLen == 100

NoTextYet == [type |-> "unset", length |-> 0]

NoDataYet == [shape |-> "unset", text |-> <<>>]

\* what the content script may answer with in response.text, and what
\* getTextFromPdfUrl may return
PageTexts ==
    {[type |-> "null", length |-> 0]}
        \cup {[type |-> "string", length |-> n] : n \in {MinTextLen, MinTextLen + 1}}

PdfTexts == {[type |-> "string", length |-> n] : n \in {0, MinTextLen + 1}}

\* a model text with a summary and a clauses section that says there are none,
\* and one with a clause
NoClausesText ==
    SummaryMarker \o <<"\n", "*", " ", "a", "\n">> \o ClausesMarker
        \o <<"\n", "No concerning clauses found.">>

OneClauseText ==
    <<"\n">> \o ClausesMarker
        \o <<"\n", "*", "*", "T", "*", "*", " ", "b", "\n", "Severity:", " ", "High">>

\* the bodies the API may answer a request with: data.candidates may be missing,
\* and the text may be empty
ApiData ==
    {[shape |-> sh, text |-> <<>>] : sh \in {"noCandidates", "text"}}
        \cup {[shape |-> "text", text |-> t] : t \in {NoClausesText, OneClauseText}}

\* a test of the shape alone
HasTextField(data) == data.shape = "text"

\* data?.candidates?.[0]?.content?.parts?.[0]?.text is truthy
HasText(data) == data.shape = "text" /\ data.text # <<>>

\* a test that lets every text through
AnyText(extractedText) == TRUE

\* typeof extractedText === 'string' && extractedText.length > 100
SufficientText(extractedText) ==
    extractedText.type = "string" /\ extractedText.length > MinTextLen

\* the messages of the errors thrown
NoActiveTab == <<"Could not find the active tab.">>

NoConnection == <<"Could not establish connection. Receiving end does not exist.">>

ExtractionError == <<"Error during HTML extraction: ", "e">>

InsufficientText(isPdf) ==
    <<"Couldn't find sufficient text content on the ", IF isPdf THEN "PDF" ELSE "page", ".">>

NoPdfLibrary == <<"Could not load PDF processing library.">>

PdfFailed(cause) == <<"Failed to process PDF: ", cause>>

NoApiKey == <<"API key not found. Please set it in options.">>

ApiUnreachable == <<"NetworkError when attempting to fetch resource.">>

ApiStatusError == <<"API request failed with status ", "500">>

BadJson == <<"JSON.parse: unexpected character">>

UnexpectedFormat == <<"Received an unexpected response format from the AI service.">>

\* error.message.includes(...)
Includes(message, pieces) == \E k \in DOMAIN message : message[k] \in pieces

\* userMessage of the catch block of the summarize handler
userMessage(message) ==
    IF Includes(message, {NoConnection[1]})
    THEN <<"Could not connect to the HTML page content. Ensure the extension has permission and try reloading the page.">>
    ELSE IF Includes(message, {"Failed to fetch"})
    THEN <<"Failed to download the PDF. Check the URL and network connection.">>
    ELSE IF Includes(message, {"PDF", NoPdfLibrary[1], "Failed to process PDF: "})
    THEN <<"Error processing PDF: ">> \o message
    ELSE <<"An error occurred: ">> \o message

\* a handler that keeps the result stored first
KeepEarlier(current, result) == IF current = NoResult THEN result ELSE current

\* currentAnalysisResult = result
StoreResult(current, result) == result

\* a handler that sends its request a second time
FetchApiTwice(r) == [r EXCEPT !.pc = "api", !.apiRequests = @ + 2]

\* processWithAI: const response = await fetch(apiUrl, ...)
FetchApi(r) == [r EXCEPT !.pc = "api", !.apiRequests = @ + 1]

NewRun(trigger, pc) ==
    [trigger |-> trigger, pc |-> pc, isPdf |-> FALSE, text |-> NoTextYet,
     pdfFetches |-> 0, apiRequests |-> 0, data |-> NoDataYet, parsed |-> FALSE,
     result |-> NoResult, errors |-> <<>>]

InitPopup ==
    /\ runs = <<>>
    /\ currentAnalysisResult = NoResult
    /\ resultsDiv = [hidden |-> TRUE, result |-> NoResult]
    /\ errorDiv = [hidden |-> TRUE, textContent |-> <<>>]
    /\ consoleLog = <<>>
    /\ loadingDiv = [hidden |-> TRUE]
    /\ PdfIdle
    /\ PopoutIdle
    /\ AuxIdle
    /\ MdIdle
    /\ ParseIdle
    /\ FilterIdle
    /\ ExtractIdle

PopupUnchanged == UNCHANGED <<mdVars, parseVars, extractVars, pdfVars, popoutVars, auxVars>>

\* the reset both handlers start with, and the trigger on the console
Triggered(kind, run) ==
    /\ runs' = Append(runs, run)
    /\ currentAnalysisResult' = NoResult
    /\ resultsDiv' = [resultsDiv EXCEPT !.hidden = TRUE]
    /\ errorDiv' = [errorDiv EXCEPT !.hidden = TRUE]
    /\ consoleLog' = Append(consoleLog, <<kind, Len(runs) + 1>>)
    /\ loadingDiv' = [hidden |-> FALSE]
    /\ UNCHANGED filterVars
    /\ PopupUnchanged

\* a click on the summarize button, up to await browser.tabs.query
SummarizeClick ==
    /\ Len(runs) < MaxRuns
    /\ Triggered("clicked", NewRun("summarize", "tabs"))

\* the popup was opened from the context menu: processSelectedText(selectedText),
\* up to the await of storage.local.get in processWithAI
SelectionOpened ==
    /\ runs = <<>>
    /\ Triggered("selected", NewRun("selection", "apiKey"))

\* the catch and finally blocks of the handler of run i, r being the run as the
\* try block left it
Fail(i, r, message) ==
    LET shown == IF r.trigger = "selection"
                 THEN <<"Error processing selection: ">> \o message
                 ELSE userMessage(message)
    IN  /\ runs' = [runs EXCEPT ![i] = [r EXCEPT !.pc = "failed",
                                                 !.errors = Append(@, shown)]]
        /\ errorDiv' = [hidden |-> FALSE, textContent |-> shown]
        /\ resultsDiv' = [resultsDiv EXCEPT !.hidden = TRUE]
        /\ consoleLog' = Append(consoleLog, <<"error", i>>)
        /\ loadingDiv' = [hidden |-> TRUE]
        /\ UNCHANGED <<currentAnalysisResult, filterVars>>

\* the handler of run i goes on to its next await
GoOn(i, r) ==
    /\ runs' = [runs EXCEPT ![i] = r]
    /\ UNCHANGED <<currentAnalysisResult, resultsDiv, errorDiv, consoleLog, loadingDiv,
                   filterVars>>

\* "Process and Display": the text is there
TextExtracted(i, r) ==
    IF SufficientText(r.text)
    THEN GoOn(i, [r EXCEPT !.pc = "apiKey"])
    ELSE Fail(i, r, InsufficientText(r.isPdf))

\* await browser.tabs.query, isPdf, and the call that extracts the text
TabsQueried(i) ==
    /\ runs[i].pc = "tabs"
    /\ \E tab \in {"none", "page", "pdf"} :
           IF tab = "none" THEN Fail(i, runs[i], NoActiveTab)
           ELSE IF tab = "pdf"
                THEN GoOn(i, [runs[i] EXCEPT !.pc = "loadPdfJs", !.isPdf = TRUE])
                ELSE GoOn(i, [runs[i] EXCEPT !.pc = "sendMessage"])
    /\ PopupUnchanged

\* await browser.tabs.sendMessage(activeTabId, { action: "extractTC" })
ContentResponded(i) ==
    /\ runs[i].pc = "sendMessage"
    /\ \/ Fail(i, runs[i], NoConnection)
       \/ Fail(i, runs[i], ExtractionError)
       \/ \E text \in PageTexts : TextExtracted(i, [runs[i] EXCEPT !.text = text])
    /\ PopupUnchanged

\* getTextFromPdfUrl: await loadPdfJs(), then fetch(pdfUrl) is called
RunPdfLibraryLoaded(i) ==
    /\ runs[i].pc = "loadPdfJs"
    /\ \/ Fail(i, runs[i], NoPdfLibrary)
       \/ GoOn(i, [runs[i] EXCEPT !.pc = "pdfFetch", !.pdfFetches = @ + 1])
    /\ PopupUnchanged

\* getTextFromPdfUrl: await fetch(pdfUrl), response.ok, arrayBuffer
RunPdfFetched(i) ==
    /\ runs[i].pc = "pdfFetch"
    /\ \/ \E cause \in {"Failed to fetch", "HTTP error! status: "} :
              Fail(i, runs[i], PdfFailed(cause))
       \/ GoOn(i, [runs[i] EXCEPT !.pc = "pdfPages"])
    /\ PopupUnchanged

\* getTextFromPdfUrl: the document is loaded and read, fullText.trim() returned
RunPdfExtracted(i) ==
    /\ runs[i].pc = "pdfPages"
    /\ \/ Fail(i, runs[i], PdfFailed("Invalid PDF structure."))
       \/ \E text \in PdfTexts : TextExtracted(i, [runs[i] EXCEPT !.text = text])
    /\ PopupUnchanged

\* processWithAI: await browser.storage.local.get('apiKey'), then the request
ApiKeyRead(i) ==
    /\ runs[i].pc = "apiKey"
    /\ \/ Fail(i, runs[i], NoApiKey)
       \/ GoOn(i, FetchApi(runs[i]))
    /\ PopupUnchanged

\* processWithAI: await fetch(apiUrl, ...), response.ok
ApiResponded(i) ==
    /\ runs[i].pc = "api"
    /\ \/ Fail(i, runs[i], ApiUnreachable)
       \/ GoOn(i, [runs[i] EXCEPT !.pc = "errorText"])
       \/ GoOn(i, [runs[i] EXCEPT !.pc = "json"])
    /\ PopupUnchanged

\* processWithAI: await response.text() of a response that is not ok
ApiErrorRead(i) ==
    /\ runs[i].pc = "errorText"
    /\ Fail(i, runs[i], ApiStatusError)
    /\ PopupUnchanged

\* displayResults(result, ...) with the setupFiltering() it ends with
ShowResult(i, r, result) ==
    /\ runs' = [runs EXCEPT ![i] = [r EXCEPT !.pc = "done", !.result = result]]
    /\ currentAnalysisResult' = StoreResult(currentAnalysisResult, result)
    /\ resultsDiv' = [hidden |-> FALSE, result |-> result]
    /\ errorDiv' = [errorDiv EXCEPT !.hidden = TRUE]
    /\ consoleLog' = Append(consoleLog, <<"displayed", i>>)
    /\ loadingDiv' = [hidden |-> TRUE]
    /\ RenderClauses([k \in DOMAIN result.concerningClauses |->
                         [severity |-> result.concerningClauses[k].severity,
                          category |-> result.concerningClauses[k].category]])

\* processWithAI: await response.json(), the check of the structure,
\* parseAIResponse(aiResponse); then displayResults in the handler
ApiJsonRead(i) ==
    /\ runs[i].pc = "json"
    /\ \/ Fail(i, runs[i], BadJson)
       \/ \E data \in ApiData :
              IF HasText(data)
              THEN ShowResult(i, [runs[i] EXCEPT !.data = data, !.parsed = TRUE],
                              Bind(parseAIResponse(data.text), LAMBDA p :
                                  [summary |-> p.summary,
                                   concerningClauses |-> p.concerningClauses]))
              ELSE Fail(i, [runs[i] EXCEPT !.data = data], UnexpectedFormat)
    /\ PopupUnchanged

NextPopup ==
    \/ SummarizeClick
    \/ SelectionOpened
    \/ \E i \in DOMAIN runs :
           \/ TabsQueried(i)
           \/ ContentResponded(i)
           \/ RunPdfLibraryLoaded(i)
           \/ RunPdfFetched(i)
           \/ RunPdfExtracted(i)
           \/ ApiKeyRead(i)
           \/ ApiResponded(i)
           \/ ApiErrorRead(i)
           \/ ApiJsonRead(i)

SpecPopup == InitPopup /\ [][NextPopup]_vars

(***************************************************************************)
(* The pop-out: the popup stores the current result under the key          *)
(* popoutData and opens a window, whose script reads the key, renders the  *)
(* result and removes the key                                              *)
(***************************************************************************)
MaxPopouts == 2

\* a model text with another clause
OtherClauseText ==
    <<"\n">> \o ClausesMarker
        \o <<"\n", "*", "*", "U", "*", "*", " ", "c", "\n", "Severity:", " ", "Low">>

\* the results an analysis may have left in currentAnalysisResult
PopoutResults ==
    {[summary |-> p.summary, concerningClauses |-> p.concerningClauses] :
        p \in {parseAIResponse(t) : t \in {OneClauseText, OtherClauseText}}}

NoAnalysisYet == <<"Please run an analysis first before popping out.">>

InitPopout ==
    /\ popoutData = NoResult
    /\ setCalls = <<>>
    /\ popoutClicks = <<>>
    /\ popoutWindows = <<>>
    /\ popoutBtnDisabled = FALSE
    /\ errorTimers = 0
    /\ runs = <<>>
    /\ currentAnalysisResult = NoResult
    /\ resultsDiv = [hidden |-> TRUE, result |-> NoResult]
    /\ errorDiv = [hidden |-> TRUE, textContent |-> <<>>]
    /\ consoleLog = <<>>
    /\ loadingDiv = [hidden |-> TRUE]
    /\ PdfIdle
    /\ AuxIdle
    /\ MdIdle
    /\ ParseIdle
    /\ FilterIdle
    /\ ExtractIdle

PopoutUnchanged ==
    UNCHANGED <<runs, consoleLog, loadingDiv, mdVars, parseVars, filterVars, extractVars,
                pdfVars, auxVars>>

\* a store that keeps what it holds
WriteIfEmpty(stored, value) == IF stored = NoResult THEN value ELSE stored

\* browser.storage.local.set({ popoutData: value })
WriteSlot(stored, value) == value

\* an analysis of the popup ends in displayResults(result, ...)
AnalysisDisplayed ==
    /\ \E result \in PopoutResults :
           /\ result # currentAnalysisResult
           /\ currentAnalysisResult' = result
           /\ resultsDiv' = [hidden |-> FALSE, result |-> result]
    /\ errorDiv' = [errorDiv EXCEPT !.hidden = TRUE]
    /\ UNCHANGED popoutVars
    /\ PopoutUnchanged

\* a click on the pop-out button, up to await browser.storage.local.set
PopoutClick ==
    /\ ~popoutBtnDisabled
    /\ Len(popoutClicks) < MaxPopouts
    /\ IF currentAnalysisResult # NoResult
       THEN /\ errorDiv' = [errorDiv EXCEPT !.hidden = TRUE]
            /\ popoutClicks' = Append(popoutClicks,
                                      [pc |-> "set", value |-> currentAnalysisResult])
            /\ UNCHANGED errorTimers
       ELSE /\ errorDiv' = [hidden |-> FALSE, textContent |-> NoAnalysisYet]
            /\ popoutClicks' = Append(popoutClicks, [pc |-> "done", value |-> NoResult])
            /\ errorTimers' = errorTimers + 1
    /\ UNCHANGED <<popoutData, setCalls, popoutWindows, popoutBtnDisabled,
                   currentAnalysisResult, resultsDiv>>
    /\ PopoutUnchanged

\* the catch block of the click handler
PopoutFailed(c, message) ==
    /\ popoutClicks' = [popoutClicks EXCEPT ![c].pc = "failed"]
    /\ errorDiv' = [hidden |-> FALSE, textContent |-> <<"Error opening popout: ", message>>]
    /\ popoutBtnDisabled' = FALSE

\* storage.local.set has written the value, or has failed; windows.create is called
StorageSet(c) ==
    /\ popoutClicks[c].pc = "set"
    /\ \/ /\ PopoutFailed(c, "QuotaExceededError")
          /\ UNCHANGED <<popoutData, setCalls>>
       \/ /\ popoutData' = WriteSlot(popoutData, popoutClicks[c].value)
          /\ setCalls' = Append(setCalls, popoutClicks[c].value)
          /\ popoutClicks' = [popoutClicks EXCEPT ![c].pc = "create"]
          /\ UNCHANGED <<errorDiv, popoutBtnDisabled>>
    /\ UNCHANGED <<popoutWindows, currentAnalysisResult, resultsDiv, errorTimers>>
    /\ PopoutUnchanged

\* the browser opens the window, which starts to load popout.html, or refuses
WindowOpened(c) ==
    /\ popoutClicks[c].pc = "create"
    /\ \/ /\ PopoutFailed(c, "Window creation failed unexpectedly.")
          /\ UNCHANGED popoutWindows
       \/ /\ popoutWindows' = Append(popoutWindows,
                                     [pc |-> "loading", readAt |-> 0, got |-> NoResult,
                                      rendered |-> NoResult, error |-> <<>>])
          /\ popoutClicks' = [popoutClicks EXCEPT ![c].pc = "created"]
          /\ UNCHANGED <<errorDiv, popoutBtnDisabled>>
    /\ UNCHANGED <<popoutData, setCalls, currentAnalysisResult, resultsDiv, errorTimers>>
    /\ PopoutUnchanged

\* await browser.windows.create has resolved: the button is disabled for a while
CreateResolved(c) ==
    /\ popoutClicks[c].pc = "created"
    /\ popoutClicks' = [popoutClicks EXCEPT ![c].pc = "done"]
    /\ popoutBtnDisabled' = TRUE
    /\ UNCHANGED <<popoutData, setCalls, popoutWindows, currentAnalysisResult, resultsDiv,
                   errorDiv, errorTimers>>
    /\ PopoutUnchanged

\* setTimeout(() => { popoutBtn.disabled = false }, 2000)
ButtonTimeout ==
    /\ popoutBtnDisabled
    /\ popoutBtnDisabled' = FALSE
    /\ UNCHANGED <<popoutData, setCalls, popoutClicks, popoutWindows, currentAnalysisResult,
                   resultsDiv, errorDiv, errorTimers>>
    /\ PopoutUnchanged

\* setTimeout(() => { errorDiv.classList.add('hidden') }, 3000): the callback
\* hides #error whatever it shows by then
ErrorTimeout ==
    /\ errorTimers > 0
    /\ errorTimers' = errorTimers - 1
    /\ errorDiv' = [errorDiv EXCEPT !.hidden = TRUE]
    /\ UNCHANGED <<popoutData, setCalls, popoutClicks, popoutWindows, popoutBtnDisabled,
                   currentAnalysisResult, resultsDiv>>
    /\ PopoutUnchanged

WindowUnchanged ==
    /\ UNCHANGED <<setCalls, popoutClicks, popoutBtnDisabled, errorTimers,
                   currentAnalysisResult, resultsDiv, errorDiv>>
    /\ PopoutUnchanged

\* popout.js: DOMContentLoaded, up to browser.storage.local.get('popoutData', ...)
PopoutLoaded(w) ==
    /\ popoutWindows[w].pc = "loading"
    /\ popoutWindows' = [popoutWindows EXCEPT ![w].pc = "get"]
    /\ UNCHANGED popoutData
    /\ WindowUnchanged

CouldNotLoad ==
    <<"Could not load analysis data. It might not have been saved correctly. Please close this window and try popping out again.">>

\* popout.js: the callback of storage.local.get
PopoutGot(w) ==
    /\ popoutWindows[w].pc = "get"
    /\ \/ popoutWindows' =
              [popoutWindows EXCEPT ![w] =
                  [@ EXCEPT !.pc = "done", !.readAt = Len(setCalls),
                            !.error = <<"Error loading analysis data: ", "lastError">>]]
       \/ IF popoutData # NoResult
          THEN popoutWindows' =
                   [popoutWindows EXCEPT ![w] =
                       [@ EXCEPT !.pc = "remove", !.readAt = Len(setCalls),
                                 !.got = popoutData, !.rendered = popoutData]]
          ELSE popoutWindows' =
                   [popoutWindows EXCEPT ![w] =
                       [@ EXCEPT !.pc = "done", !.readAt = Len(setCalls),
                                 !.error = CouldNotLoad]]
    /\ UNCHANGED popoutData
    /\ WindowUnchanged

\* popout.js: browser.storage.local.remove('popoutData', ...) takes effect
PopoutRemoved(w) ==
    /\ popoutWindows[w].pc = "remove"
    /\ popoutData' = NoResult
    /\ popoutWindows' = [popoutWindows EXCEPT ![w].pc = "done"]
    /\ WindowUnchanged

NextPopout ==
    \/ AnalysisDisplayed
    \/ PopoutClick
    \/ \E c \in DOMAIN popoutClicks : StorageSet(c) \/ WindowOpened(c) \/ CreateResolved(c)
    \/ ButtonTimeout
    \/ ErrorTimeout
    \/ \E w \in DOMAIN popoutWindows : PopoutLoaded(w) \/ PopoutGot(w) \/ PopoutRemoved(w)

SpecPopout == InitPopout /\ [][NextPopout]_vars

(***************************************************************************)
(* The converter applied to lines made of emphasis delimiters: a line is   *)
(* at most MaxMdPieces pieces, each a bold delimiter, an italic delimiter  *)
(* or a letter                                                             *)
(***************************************************************************)
MaxMdPieces == 5

MdPieces == {<<"*", "*">>, <<"_", "_">>, <<"*">>, <<"_">>, <<"a">>}

InitMdSpans ==
    /\ mdText \in {Concat(pieces) : pieces \in SeqsUpTo(MdPieces, MaxMdPieces)}
    /\ mdHtml = NONE
    /\ mdAgain = NONE
    /\ mdPlain = NONE
    /\ mdPc = "text"
    /\ ParseIdle
    /\ FilterIdle
    /\ ExtractIdle
    /\ FlowIdle

SpecMarkdownSpans == InitMdSpans /\ [][NextMd]_vars

(***************************************************************************)
(* The context-menu trigger: the background script stores the selection    *)
(* and the flag and opens the popup; the popup, once loaded, reads both    *)
(* and processes the selection.  A selection is named by the number of the *)
(* click it is from.  The operations on storage.local take effect in the   *)
(* order they are called in.                                               *)
(***************************************************************************)
MaxMenuClicks == 2

MaxPopupOpens == 3

SomeKey == <<"A", "I", "z", "a", "S", "y", "1", "2">>

InitSelection ==
    /\ apiKey \in {<<>>, SomeKey}
    /\ selectedText = NoSelection
    /\ contextMenuClicked = FALSE
    /\ menuClicks = 0
    /\ popupOpens = 0
    /\ popupPc = "closed"
    /\ processed = <<>>
    /\ FeedbackIdle
    /\ OptionsIdle
    /\ PdfIdle
    /\ PopupIdle
    /\ PopoutIdle
    /\ MdIdle
    /\ ParseIdle
    /\ FilterIdle
    /\ ExtractIdle

SelectionUnchanged ==
    UNCHANGED <<apiKey, feedbackVars, optionsVars, mdVars, parseVars, filterVars,
                extractVars, pdfVars, popupVars, popoutVars>>

\* a flag that stays as it is
KeepFlag(flag) == flag

\* browser.storage.local.remove('contextMenuClicked')
RemoveFlag(flag) == FALSE

\* contextMenus.onClicked: the selection and the flag are stored, then
\* action.openPopup() opens the popup, which replaces the one that was open, or
\* it fails and the options page is opened instead
MenuClick ==
    /\ menuClicks < MaxMenuClicks
    /\ menuClicks' = menuClicks + 1
    /\ selectedText' = menuClicks + 1
    /\ contextMenuClicked' = TRUE
    /\ \/ /\ popupOpens < MaxPopupOpens
          /\ popupPc' = "loaded"
          /\ popupOpens' = popupOpens + 1
       \/ UNCHANGED <<popupPc, popupOpens>>
    /\ UNCHANGED processed
    /\ SelectionUnchanged

\* the user opens the popup with the toolbar button
PopupOpened ==
    /\ popupPc = "closed"
    /\ popupOpens < MaxPopupOpens
    /\ popupPc' = "loaded"
    /\ popupOpens' = popupOpens + 1
    /\ UNCHANGED <<selectedText, contextMenuClicked, menuClicks, processed>>
    /\ SelectionUnchanged

\* the popup is closed: its page is unloaded and none of its callbacks runs
PopupClosed ==
    /\ popupPc # "closed"
    /\ popupPc' = "closed"
    /\ UNCHANGED <<selectedText, contextMenuClicked, menuClicks, popupOpens, processed>>
    /\ SelectionUnchanged

\* callback of storage.local.get('apiKey'): the setup prompt, or the second get
ApiKeyChecked ==
    /\ popupPc = "loaded"
    /\ popupPc' = IF apiKey = <<>> THEN "setup" ELSE "checking"
    /\ UNCHANGED <<selectedText, contextMenuClicked, menuClicks, popupOpens, processed>>
    /\ SelectionUnchanged

\* callback of storage.local.get(['selectedText', 'contextMenuClicked']): with
\* both there the flag is removed and processSelectedText is called
TriggerChecked ==
    /\ popupPc = "checking"
    /\ IF selectedText # NoSelection /\ contextMenuClicked
       THEN /\ contextMenuClicked' = RemoveFlag(contextMenuClicked)
            /\ processed' = Append(processed, selectedText)
            /\ popupPc' = "processing"
       ELSE /\ popupPc' = "idle"
            /\ UNCHANGED <<contextMenuClicked, processed>>
    /\ UNCHANGED <<selectedText, menuClicks, popupOpens>>
    /\ SelectionUnchanged

\* processSelectedText: the finally block removes selectedText
ProcessingEnded ==
    /\ popupPc = "processing"
    /\ selectedText' = NoSelection
    /\ popupPc' = "idle"
    /\ UNCHANGED <<contextMenuClicked, menuClicks, popupOpens, processed>>
    /\ SelectionUnchanged

NextSelection ==
    \/ MenuClick
    \/ PopupOpened
    \/ PopupClosed
    \/ ApiKeyChecked
    \/ TriggerChecked
    \/ ProcessingEnded

SpecSelection == InitSelection /\ [][NextSelection]_vars

(***************************************************************************)
(* showFeedback on a copy button: a click calls                            *)
(* navigator.clipboard.writeText, showFeedback runs when the write has     *)
(* settled and its timer restores the button 1.5 s later.  The timers all  *)
(* have the same delay, so they fire in the order they were started in.    *)
(***************************************************************************)
MaxCopyClicks == 4

InitFeedback ==
    /\ copyBtn = [textContent |-> ButtonLabel, disabled |-> FALSE]
    /\ copyClicks = 0
    /\ clipboardWrites = 0
    /\ feedbackTimers = <<>>
    /\ apiKey = <<>>
    /\ SelIdle
    /\ OptionsIdle
    /\ PdfIdle
    /\ PopupIdle
    /\ PopoutIdle
    /\ MdIdle
    /\ ParseIdle
    /\ FilterIdle
    /\ ExtractIdle

FeedbackUnchanged ==
    UNCHANGED <<apiKey, selVars, optionsVars, mdVars, parseVars, filterVars, extractVars,
                pdfVars, popupVars, popoutVars>>

\* click listener of the button: a disabled button gets no click
CopyClick ==
    /\ ~copyBtn.disabled
    /\ copyClicks < MaxCopyClicks
    /\ copyClicks' = copyClicks + 1
    /\ clipboardWrites' = clipboardWrites + 1
    /\ UNCHANGED <<copyBtn, feedbackTimers>>
    /\ FeedbackUnchanged

\* showFeedback(buttonElement, message)
showFeedback(message) ==
    /\ feedbackTimers' = Append(feedbackTimers, copyBtn.textContent)
    /\ copyBtn' = [textContent |-> message, disabled |-> TRUE]

\* writeText has resolved or rejected: then / catch call showFeedback
ClipboardSettled ==
    /\ clipboardWrites > 0
    /\ clipboardWrites' = clipboardWrites - 1
    /\ \E message \in {"Copied!", "Error!"} : showFeedback(message)
    /\ UNCHANGED copyClicks
    /\ FeedbackUnchanged

\* the callback of setTimeout: the button gets originalText back and is enabled
FeedbackTimeout ==
    /\ feedbackTimers # <<>>
    /\ copyBtn' = [textContent |-> Head(feedbackTimers), disabled |-> FALSE]
    /\ feedbackTimers' = Tail(feedbackTimers)
    /\ UNCHANGED <<copyClicks, clipboardWrites>>
    /\ FeedbackUnchanged

NextFeedback == CopyClick \/ ClipboardSettled \/ FeedbackTimeout

SpecFeedback == InitFeedback /\ [][NextFeedback]_vars

(***************************************************************************)
(* The options page: the stored key is shown masked in the input, a focus  *)
(* on the input clears the masked form, the save button stores the trimmed *)
(* value of the input                                                      *)
(***************************************************************************)
OtherKey == <<"B", "c", "d", "e", "f">>

\* what the user types into the input
TypedValues == {<<>>, <<" ">>, OtherKey, <<" ">> \o OtherKey \o <<" ">>}

\* the keys storage can hold when the page is opened first
StoredAtStart == {<<>>, SomeKey}

\* apiKey.substring(0, 3) + '...' + apiKey.substring(apiKey.length - 4)
Mask(key) ==
    SubSeq(key, 1, IF Len(key) < 3 THEN Len(key) ELSE 3)
        \o <<".", ".", ".">>
        \o SubSeq(key, (IF Len(key) < 4 THEN 0 ELSE Len(key) - 4) + 1, Len(key))

NoStatus == [textContent |-> "", type |-> ""]

InitOptions ==
    /\ apiKey \in StoredAtStart
    /\ apiKeyInput = <<>>
    /\ maskedKey = <<>>
    /\ statusDiv = NoStatus
    /\ optionsPc = "closed"
    /\ SelIdle
    /\ FeedbackIdle
    /\ PdfIdle
    /\ PopupIdle
    /\ PopoutIdle
    /\ MdIdle
    /\ ParseIdle
    /\ FilterIdle
    /\ ExtractIdle

OptionsUnchanged ==
    UNCHANGED <<selVars, feedbackVars, mdVars, parseVars, filterVars, extractVars,
                pdfVars, popupVars, popoutVars>>

\* DOMContentLoaded of the options page, up to storage.local.get('apiKey', ...)
OptionsOpened ==
    /\ optionsPc = "closed"
    /\ optionsPc' = "loading"
    /\ apiKeyInput' = <<>>
    /\ maskedKey' = <<>>
    /\ statusDiv' = NoStatus
    /\ UNCHANGED apiKey
    /\ OptionsUnchanged

\* callback of storage.local.get: a stored key is put into the input masked
\* and the focus listener is added
OptionsLoaded ==
    /\ optionsPc = "loading"
    /\ optionsPc' = "ready"
    /\ IF apiKey # <<>>
       THEN maskedKey' = Mask(apiKey) /\ apiKeyInput' = Mask(apiKey)
       ELSE UNCHANGED <<maskedKey, apiKeyInput>>
    /\ UNCHANGED <<apiKey, statusDiv>>
    /\ OptionsUnchanged

\* focus listener: if (apiKeyInput.value === maskedKey) apiKeyInput.value = ''
InputFocused ==
    /\ optionsPc = "ready"
    /\ maskedKey # <<>>
    /\ apiKeyInput = maskedKey
    /\ apiKeyInput' = <<>>
    /\ UNCHANGED <<apiKey, maskedKey, statusDiv, optionsPc>>
    /\ OptionsUnchanged

\* the user types a value into the input, which has the focus by then
InputTyped ==
    /\ optionsPc = "ready"
    /\ maskedKey # <<>> => apiKeyInput # maskedKey
    /\ \E value \in TypedValues : apiKeyInput' = value
    /\ UNCHANGED <<apiKey, maskedKey, statusDiv, optionsPc>>
    /\ OptionsUnchanged

\* click listener of the save button, with the callback of storage.local.set
SaveClick ==
    /\ optionsPc = "ready"
    /\ IF Trim(apiKeyInput) # <<>>
       THEN /\ apiKey' = Trim(apiKeyInput)
            /\ statusDiv' = [textContent |-> "API key saved successfully!",
                             type |-> "success"]
       ELSE /\ statusDiv' = [textContent |-> "Please enter a valid API key",
                             type |-> "error"]
            /\ UNCHANGED apiKey
    /\ UNCHANGED <<apiKeyInput, maskedKey, optionsPc>>
    /\ OptionsUnchanged

\* the options page is closed
OptionsClosed ==
    /\ optionsPc # "closed"
    /\ optionsPc' = "closed"
    /\ UNCHANGED <<apiKey, apiKeyInput, maskedKey, statusDiv>>
    /\ OptionsUnchanged

NextOptions ==
    \/ OptionsOpened
    \/ OptionsLoaded
    \/ InputFocused
    \/ InputTyped
    \/ SaveClick
    \/ OptionsClosed

SpecOptions == InitOptions /\ [][NextOptions]_vars

(***************************************************************************)
(* The popup with the pop-out button clicked while there is no result: the *)
(* handlers of the analyses, the warning of the pop-out click and the      *)
(* timer that hides it                                                     *)
(***************************************************************************)
\* a click on the pop-out button that finds currentAnalysisResult null
WarningClick == currentAnalysisResult = NoResult /\ PopoutClick

NextPopupTimers == NextPopup \/ WarningClick \/ ErrorTimeout

SpecPopupTimers == InitPopup /\ [][NextPopupTimers]_vars

(***************************************************************************)
(* Properties of the parser                                                *)
(***************************************************************************)

Returned == parsePc = "returned"

HasSummaryMarker(r) ==
    r # NULL /\ \E p \in 1..Len(r) : MatchI(r, p, SummaryMarker)

HasClausesMarker(r) ==
    r # NULL /\ \E p \in 1..Len(r) : MatchI(r, p, ClausesMarker)

AdmittedBlocks == SelectSeq(parseBlocks, LAMBDA b : b.admitted)

\* C1: parseAIResponse lets no exception out: whatever it is given, it returns an
\* object with the fields summary and concerningClauses, and when the text has no
\* summary section marker the summary is the "Summary could not be parsed."
\* placeholder.
C1_NoExceptionDefaultSummary ==
    /\ parsePc # "threw"
    /\ Returned =>
        /\ {"summary", "concerningClauses"} \subseteq DOMAIN parseResult
        /\ ~HasSummaryMarker(response) => parseResult.summary = DefaultSummary

\* a text that is no empty string, holds neither marker and was parsed
C1_Witness ==
    /\ Returned
    /\ response # NULL
    /\ Len(response) > 0
    /\ ~HasSummaryMarker(response)
    /\ ~HasClausesMarker(response)
    /\ parseResult.summary = DefaultSummary

\* C2: in the returned clause list every clause of severity high comes before
\* every clause of another severity.
C2_HighFirst ==
    Returned =>
        LET cs == parseResult.concerningClauses
        IN  \A i, j \in DOMAIN cs :
                (cs[i].severity = "high" /\ cs[j].severity # "high") => i < j

\* three clauses, found in an order that had a high one after another one
C2_Witness ==
    /\ Returned
    /\ Len(parseResult.concerningClauses) >= 3
    /\ \E i, j \in DOMAIN AdmittedBlocks :
           /\ i < j
           /\ AdmittedBlocks[i].severity # "high"
           /\ AdmittedBlocks[j].severity = "high"

HasSeverityLabel(block) ==
    \E p, q \in DOMAIN block :
        /\ p < q
        /\ toLowerCase(block[p]) = "severity:"
        /\ toLowerCase(block[q]) \in {"high", "medium", "low"}
        /\ \A k \in (p + 1)..(q - 1) : IsWs(block[k])

HasCategoryLabel(block) ==
    \E p, q \in DOMAIN block :
        /\ p < q
        /\ toLowerCase(block[p]) = "category:"
        /\ \A k \in (p + 1)..(q - 1) : IsWs(block[k])
        /\ \/ toLowerCase(block[q]) = "privacy"
           \/ /\ q + 2 <= Len(block)
              /\ IsWs(block[q + 1])
              /\ <<toLowerCase(block[q]), toLowerCase(block[q + 2])>> \in TwoWordCategories

Severities == {"low", "medium", "high"}

Categories == {"privacy", "data-usage", "legal-rights", "service-changes",
               "user-content", "general"}

\* C3: every returned clause has a severity among low, medium, high and a category
\* among the six category values; a block without a recognisable Severity label
\* gets medium, one without a recognisable Category label gets general.
C3_ValidEnums ==
    Returned =>
        /\ \A c \in Range(parseResult.concerningClauses) :
               c.severity \in Severities /\ c.category \in Categories
        /\ \A b \in Range(AdmittedBlocks) :
               /\ Clause(b) \in Range(parseResult.concerningClauses)
               /\ ~HasSeverityLabel(b.block) => b.severity = "medium"
               /\ ~HasCategoryLabel(b.block) => b.category = "general"

\* a clause from a block with a Severity: that names no severity and no Category,
\* next to a clause that has both labels
C3_Witness ==
    /\ Returned
    /\ \E b \in Range(AdmittedBlocks) :
           /\ \E p \in DOMAIN b.block : b.block[p] = "Severity:"
           /\ ~HasSeverityLabel(b.block)
           /\ ~HasCategoryLabel(b.block)
    /\ \E c \in Range(parseResult.concerningClauses) :
           c.severity = "high" /\ c.category = "legal-rights"

\* after an optional list marker and whitespace the block opens with **, and the
\* text up to the next ** of that line is not blank
BoldTitleAtStart(block) ==
    \E b, e \in DOMAIN block :
        /\ \/ \A k \in 1..(b - 1) : IsWs(block[k])
           \/ block[1] \in {"*", "-"} /\ \A k \in 2..(b - 1) : IsWs(block[k])
        /\ b + 2 <= e /\ e + 1 <= Len(block)
        /\ block[b] = "*" /\ block[b + 1] = "*"
        /\ block[e] = "*" /\ block[e + 1] = "*"
        /\ \A k \in (b + 2)..(e - 1) :
               block[k] # "\n" /\ ~(block[k] = "*" /\ block[k + 1] = "*")
        /\ \E k \in (b + 2)..(e - 1) : ~IsWs(block[k])

\* C4: a block of the clauses section is admitted iff it has a non-empty bold
\* title at its start and a non-empty converted text; the returned clauses are
\* the admitted blocks, so a block without a title never shows up under a made-up
\* title, and a section without any bold title gives the empty list.
C4_AdmittedIffTitleAndText ==
    Returned =>
        /\ \A b \in Range(parseBlocks) :
               b.admitted <=> (BoldTitleAtStart(b.block) /\ b.text # <<>>)
        /\ Len(parseResult.concerningClauses) = Len(AdmittedBlocks)
        /\ \A c \in Range(parseResult.concerningClauses) :
               \E b \in Range(AdmittedBlocks) : c = Clause(b)
        /\ (\A b \in Range(parseBlocks) : ~BoldTitleAtStart(b.block))
               => parseResult.concerningClauses = <<>>

\* a section with an admitted block, a block that has no title ("No concerning
\* clauses found.") and a block that has a title and no text
C4_Witness ==
    /\ Returned
    /\ \E b \in Range(parseBlocks) : b.admitted
    /\ \E b \in Range(parseBlocks) :
           b.block = <<"No concerning clauses found.">> /\ ~b.admitted
    /\ \E b \in Range(parseBlocks) :
           BoldTitleAtStart(b.block) /\ b.text = <<>> /\ ~b.admitted

\* C5: a text without the clauses section marker gives the empty clause list and
\* no exception, whatever else it holds.
C5_NoMarkerNoClauses ==
    /\ parsePc # "threw"
    /\ (Returned /\ ~HasClausesMarker(response)) =>
           parseResult.concerningClauses = <<>>

\* a text without the marker that holds a bold title and a Severity label
C5_Witness ==
    /\ Returned
    /\ response # NULL
    /\ ~HasClausesMarker(response)
    /\ \E p \in DOMAIN response : BoldAt(response, p).matched /\ response[p] = "*"
    /\ HasSeverityLabel(response)
    /\ parseResult.concerningClauses = <<>>

IsBulletLine(line) == Len(line) >= 2 /\ line[1] \in {"*", "-"} /\ IsWs(line[2])

\* the summaries that the bullet lines of the span allow: the list of the
\* non-empty bullet lines when the span has a bullet line, the paragraph when it
\* has no bullet line (or none that is not empty), the placeholder when the span
\* is empty
SummariesFromBulletLines(span) ==
    LET bulletLines == SelectSeq(SplitLines(span, <<>>), IsBulletLine)
        contents == [i \in 1..Len(bulletLines) |->
                        Trim(SubSeq(bulletLines[i], 2, Len(bulletLines[i])))]
        nonEmpty == SelectSeq(contents, LAMBDA c : Len(c) > 0)
        list == <<"<ul>">>
                    \o ListItems([i \in 1..Len(nonEmpty) |->
                                     convertMarkdownToHtml(nonEmpty[i])])
                    \o <<"</ul>">>
        paragraph == <<"<p>">> \o convertMarkdownToHtml(span) \o <<"</p>">>
    IN  (IF Len(bulletLines) > 0 THEN {list} ELSE {})
            \cup (IF Len(nonEmpty) = 0 THEN {paragraph} ELSE {})
            \cup (IF span = <<>> THEN {DefaultSummary} ELSE {})

\* C6: when the summary marker is there, the summary is an unordered list with
\* one item for every non-empty bullet line of the span, in order, if the span
\* has a bullet line, and otherwise one paragraph that wraps the conversion of
\* the span.
C6_SummaryFromBulletLines ==
    (Returned /\ HasSummaryMarker(response)) =>
        parseResult.summary \in SummariesFromBulletLines(summaryMatch(response).group1)

(***************************************************************************)
(* Properties of the renderer                                              *)
(***************************************************************************)
\* no emphasis or code delimiter, and no line that opens with a list marker
NoMarkdown(text) ==
    /\ \A i \in DOMAIN text : text[i] \notin {"*", "_", BQ}
    /\ \A l \in Range(SplitLines(text, <<>>)) :
           ~StartsWith(Trim(l), <<"-", " ">>)

RECURSIVE NewlinesToBr(_)
NewlinesToBr(text) ==
    IF text = <<>> THEN <<>>
    ELSE (IF Head(text) = "\n" THEN <<"<br>">> ELSE <<Head(text)>>)
             \o NewlinesToBr(Tail(text))

\* the lines of the text without the whitespace around them, blank lines left out
TrimmedLines(text) ==
    LET lines == SplitLines(text, <<>>)
    IN  SelectSeq([i \in 1..Len(lines) |-> Trim(lines[i])], LAMBDA l : l # <<>>)

Converted == mdPc = "html"

\* C7 as stated: for a text without markdown syntax the output of
\* convertMarkdownToHtml is the text with every newline replaced by the
\* line-break marker and nothing else changed, and converting that output again
\* leaves it as it is.
C7_PlainPassthrough ==
    (Converted /\ NoMarkdown(mdText)) =>
        /\ mdHtml = NewlinesToBr(mdText)
        /\ mdAgain # NONE => mdAgain = mdHtml

\* C7 as amended: for a text without markdown syntax the output is the lines of
\* the text, each without the whitespace around it and the blank ones left out,
\* joined by the line-break marker, and converting that output again leaves it
\* as it is.
C7_PlainLinesJoined ==
    (Converted /\ NoMarkdown(mdText)) =>
        /\ mdHtml = Join(TrimmedLines(mdText), <<"<br>">>)
        /\ mdAgain # NONE => mdAgain = mdHtml

\* a text without markdown with a blank line between two lines, converted twice
C7_Witness ==
    /\ Converted
    /\ NoMarkdown(mdText)
    /\ mdAgain # NONE
    /\ Len(SplitLines(mdText, <<>>)) > Len(TrimmedLines(mdText))
    /\ Len(TrimmedLines(mdText)) >= 2

VisibleUnder(filter, item) ==
    \/ filter = "all"
    \/ filter \in Severities /\ item.severity = filter
    \/ filter \in Categories /\ item.category = filter

\* C9: while the filter buttons can be clicked exactly one of them is active, the
\* one clicked last ("all" before any click), and a clause is visible iff that
\* filter is "all", or a severity equal to the clause's, or a category equal to
\* the clause's; a second click on the same filter changes nothing.
C9_RadioFilter ==
    /\ [](~controlsHidden =>
            /\ Cardinality(activeButtons) = 1
            /\ activeButtons = {lastFilter}
            /\ \A i \in DOMAIN items :
                   (i \notin filteredOut) <=> VisibleUnder(lastFilter, items[i]))
    /\ [][\A button \in FilterTypes :
              (FilterClick(button) /\ lastFilter = button) =>
                  (filteredOut' = filteredOut /\ activeButtons' = activeButtons)]_vars

\* two clauses, a category filter clicked after other filters, one clause hidden
\* by it and one shown
C9_Witness ==
    /\ ~controlsHidden
    /\ Len(items) = 2
    /\ lastFilter = "privacy"
    /\ filteredOut = {1}

(***************************************************************************)
(* Properties of the extractor                                             *)
(***************************************************************************)
IsPrefix(s, t) == Len(s) <= Len(t) /\ SubSeq(t, 1, Len(s)) = s

\* the text extractTermsAndConditions returned has been sent as the response
Extracted == exPc = "responded" /\ exResponses = <<exResult>>

\* the selectors one of whose elements has a cleaned text longer than 500
LongMatches ==
    {i \in DOMAIN selectorMatches :
        \E j \in DOMAIN selectorMatches[i] : selectorMatches[i][j] > 500}

\* the strategies are evaluated in the order selector, heading, iframe, container,
\* body, and the text returned comes from the one evaluated last
InPriorityOrder ==
    /\ IsPrefix(exTried, StrategyOrder)
    /\ (Extracted /\ exResult # NoText) => exResult.from = exTried[Len(exTried)]

\* C10: the strategies are tried in strict priority order and the first that
\* succeeds gives the result, no lower one being evaluated; an element that
\* matches a known selector and has a cleaned text longer than 500 is returned,
\* whatever the headings, iframes and containers are and whether or not the page
\* looks like a T&C page.
C10_AnyLongMatchReturned ==
    /\ InPriorityOrder
    /\ (Extracted /\ LongMatches # {}) =>
           /\ exTried = <<"selector">>
           /\ exResult.from = "selector"
           /\ exResult.elem \in LongMatches

\* the upper strategies (selector, heading, iframe) all failed
UpperStrategiesFailed ==
    Extracted /\ exResult.from \notin {"selector", "heading", "iframe"}

LongContainers == {i \in DOMAIN containers : containers[i] > 1000}

Least(S) == CHOOSE i \in S : \A j \in S : i <= j

\* C11: when the selector, heading and iframe strategies all fail, the result is
\* null if the page does not look like a T&C page (and no fallback is evaluated);
\* otherwise it is the first common container whose cleaned text exceeds 1000
\* characters, else the cleaned body text if that exceeds 1500 characters, else
\* null.
C11_Fallbacks ==
    UpperStrategiesFailed =>
        IF ~isLikelyTCPage
        THEN /\ exResult = NoText
             /\ exTried = <<"selector", "heading", "iframe">>
             /\ containers = <<>>
             /\ bodyText = NotRead
        ELSE /\ containers # <<>>
             /\ IF LongContainers # {}
                THEN /\ exResult = [from |-> "container", elem |-> Least(LongContainers),
                                    len |-> containers[Least(LongContainers)],
                                    script |-> FALSE]
                     /\ bodyText = NotRead
                ELSE /\ bodyText # NotRead
                     /\ IF bodyText > 1500
                        THEN exResult = [from |-> "body", elem |-> 1, len |-> bodyText,
                                         script |-> FALSE]
                        ELSE exResult = NoText

\* a likely T&C page with no usable selector, heading, iframe or container and a
\* body of 1200 characters: null was returned
C11_Witness ==
    /\ Extracted
    /\ isLikelyTCPage
    /\ exTried = <<"selector", "heading", "iframe", "container", "body">>
    /\ bodyText = 1200
    /\ exResult = NoText

\* C12: whatever strategy produces it, a text returned (not null) never contains
\* the content of a script or style element.
C12_NoScriptOrStyle ==
    (Extracted /\ exResult # NoText) => ~exResult.script

(***************************************************************************)
(* Further properties of the parser                                        *)
(***************************************************************************)

\* the clauses in the order in which the loop over the blocks pushed them
ParseOrder == [i \in DOMAIN AdmittedBlocks |-> Clause(AdmittedBlocks[i])]

\* C19: the sort is stable: the clauses of severity high keep the order in which
\* their blocks stood in the text, and so do the other clauses, medium and low
\* ones not being reordered relative to each other.
C19_StableSort ==
    Returned =>
        parseResult.concerningClauses =
            SelectSeq(ParseOrder, LAMBDA c : c.severity = "high")
                \o SelectSeq(ParseOrder, LAMBDA c : c.severity # "high")

\* a low clause, then a medium one, then a high one: the sort moved the high one
\* to the front and left the low one before the medium one
C19_Witness ==
    /\ Returned
    /\ Len(ParseOrder) = 3
    /\ <<ParseOrder[1].severity, ParseOrder[2].severity, ParseOrder[3].severity>>
           = <<"low", "medium", "high">>
    /\ parseResult.concerningClauses = <<ParseOrder[3], ParseOrder[1], ParseOrder[2]>>

\* what follows the bold span of the title in a block that opens with one
AfterTitle(block) ==
    SubSeq(block, Len(TitleAt(block, 1).group0) + 1, Len(block))

\* the line, white space at its ends aside, is "Severity:" and one of High, Medium,
\* Low (kind "severity") or "Category:" and one of the five categories (kind
\* "category"), in any case
IsLabelLine(line, kind) ==
    LET t == Trim(line)
        v == TrimStart(Tail(t))
    IN  /\ Len(t) > 0
        /\ IF kind = "severity"
           THEN /\ toLowerCase(t[1]) = "severity:"
                /\ Len(v) = 1
                /\ toLowerCase(v[1]) \in SeverityValues
           ELSE /\ toLowerCase(t[1]) = "category:"
                /\ \/ Len(v) = 1 /\ toLowerCase(v[1]) = "privacy"
                   \/ /\ Len(v) = 3
                      /\ IsWs(v[2])
                      /\ <<toLowerCase(v[1]), toLowerCase(v[3])>> \in TwoWordCategories

IsAnyLabelLine(line) == IsLabelLine(line, "severity") \/ IsLabelLine(line, "category")

\* the value a label line gives
LabelValue(line) == TrimStart(Tail(Trim(line)))

\* the text without its label lines
WithoutLabelLines(s) ==
    Join(SelectSeq(SplitLines(s, <<>>), LAMBDA l : ~IsAnyLabelLine(l)), <<"\n">>)

\* the lines of a block that hold the word Severity: or Category:
LinesWith(block, word) ==
    SelectSeq(SplitLines(block, <<>>),
              LAMBDA l : \E p \in DOMAIN l : toLowerCase(l[p]) = word)

\* the first line of the block that names a severity (a category) is a label line,
\* and the clause has the severity (the category) it gives
LabelsDecide(b) ==
    LET sev == LinesWith(b.block, "severity:")
        cat == LinesWith(b.block, "category:")
    IN  /\ (sev # <<>> /\ IsLabelLine(sev[1], "severity"))
               => b.severity = toLowerCase(LabelValue(sev[1])[1])
        /\ (cat # <<>> /\ IsLabelLine(cat[1], "category"))
               => b.category = Hyphenate(LabelValue(cat[1]))

OpensBrokenLabel(line) ==
    LET t == Trim(line)
        v == TrimStart(Tail(t))
    IN  /\ Len(t) > 0
        /\ \/ toLowerCase(t[1]) \in {"severity:", "category:"} /\ v = <<>>
           \/ /\ toLowerCase(t[1]) = "category:"
              /\ Len(v) = 1
              /\ \E c \in TwoWordCategories : toLowerCase(v[1]) = c[1]

HasBrokenLabel(s) == \E l \in Range(SplitLines(s, <<>>)) : OpensBrokenLabel(l)

\* the lines of a converted text
RECURSIVE SplitAtBr(_, _)
SplitAtBr(html, cur) ==
    IF html = <<>> THEN <<cur>>
    ELSE IF Head(html) = "<br>" THEN <<cur>> \o SplitAtBr(Tail(html), <<>>)
    ELSE SplitAtBr(Tail(html), Append(cur, Head(html)))

Segment(k) ==
    IF pdfPages[k].fails # "none" THEN <<Placeholder(k)>>
    ELSE Trim(PageText(pdfPages[k].items))

\* the segments of the pages 1..n in page order, two newlines after each
RECURSIVE SegmentsUpTo(_)
SegmentsUpTo(n) ==
    IF n = 0 THEN <<>> ELSE SegmentsUpTo(n - 1) \o Segment(n) \o <<"\n", "\n">>

\* C16: the pages are read one after another from 1 to N; a page that cannot be
\* read contributes the placeholder with its number and does not end the
\* extraction, every other page contributes its text, and the segments stand in
\* page order in the result.
C16_PagesInOrder ==
    /\ pdfPc \in {"getPage", "getTextContent"} =>
           /\ pdfPageNum \in 1..Len(pdfPages)
           /\ pdfFullText = SegmentsUpTo(pdfPageNum - 1)
    /\ pdfPc = "returned" =>
           /\ pdfPageNum = Len(pdfPages)
           /\ pdfResult = Trim(SegmentsUpTo(Len(pdfPages)))
    /\ (pdfPc = "threw" /\ pdfPages # <<>>) => pdfPageNum = 0

\* three pages, the second of which cannot be read: its placeholder stands
\* between the texts of the first and the third
C16_Witness ==
    /\ pdfPc = "returned"
    /\ Len(pdfPages) = 3
    /\ pdfPages[2].fails = "getTextContent"
    /\ pdfResult = <<"a", "\n", "\n", "[Error extracting text from page 2]", "\n", "\n",
                     "b", " ", "c">>

(***************************************************************************)
(* Properties of the popup                                                 *)
(***************************************************************************)

\* the runs started by the summarize button that have their text
SummarizeRuns ==
    {i \in DOMAIN runs : runs[i].trigger = "summarize" /\ runs[i].text # NoTextYet}

\* the events of the console, as a set of positions
EventsOf(kinds, i) ==
    {k \in DOMAIN consoleLog : consoleLog[k][1] \in kinds /\ consoleLog[k][2] = i}

\* C13: in the summarize flow the model API is requested only for an extracted
\* text that is a string longer than 100 characters; for any other text no
\* request is made and the error shown says that no sufficient text was found on
\* the PDF, or on the page.
C13_RequestOnlyForSufficientText ==
    \A i \in DOMAIN runs :
        /\ (runs[i].trigger = "summarize" /\ runs[i].apiRequests > 0) =>
               runs[i].text.type = "string" /\ runs[i].text.length > 100
        /\ (i \in SummarizeRuns
                /\ ~(runs[i].text.type = "string" /\ runs[i].text.length > 100)) =>
               /\ runs[i].pc = "failed"
               /\ runs[i].apiRequests = 0
               /\ runs[i].errors =
                      IF runs[i].isPdf
                      THEN << <<"Error processing PDF: ",
                                "Couldn't find sufficient text content on the ", "PDF", ".">> >>
                      ELSE << <<"An error occurred: ",
                                "Couldn't find sufficient text content on the ", "page", ".">> >>
               /\ (consoleLog[Len(consoleLog)] = <<"error", i>>) =>
                      errorDiv = [hidden |-> FALSE, textContent |-> runs[i].errors[1]]

\* a page whose text has exactly 100 characters and a PDF whose text is empty:
\* both analyses ended with the error and without a request
C13_Witness ==
    /\ Len(runs) = 2
    /\ ~runs[1].isPdf /\ runs[1].text = [type |-> "string", length |-> 100]
    /\ runs[2].isPdf /\ runs[2].text = [type |-> "string", length |-> 0]
    /\ \A i \in {1, 2} : runs[i].pc = "failed" /\ runs[i].apiRequests = 0
    /\ errorDiv.textContent[1] = "Error processing PDF: "

\* the runs whose request was answered with a body that could be read
Answered == {i \in DOMAIN runs : runs[i].data # NoDataYet}

LacksText(data) ==
    data.shape = "noCandidates" \/ data.text = <<>>

\* C14: a response without a text that is not empty makes processWithAI throw:
\* the parser is not run and no result is displayed or stored; a response whose
\* text yields no clause is a result, displayed and stored as the current result
\* with an empty list of clauses.
C14_NoTextIsErrorNoClausesIsResult ==
    \A i \in Answered :
        IF LacksText(runs[i].data)
        THEN /\ runs[i].pc = "failed"
             /\ ~runs[i].parsed
             /\ runs[i].result = NoResult
             /\ Len(runs[i].errors) = 1
             /\ UnexpectedFormat[1] \in Range(runs[i].errors[1])
             /\ EventsOf({"displayed"}, i) = {}
             /\ (consoleLog[Len(consoleLog)] = <<"error", i>>) =>
                    /\ resultsDiv.hidden
                    /\ ~errorDiv.hidden
                    /\ (Len(runs) = 1 => currentAnalysisResult = NoResult)
        ELSE /\ runs[i].pc = "done"
             /\ runs[i].parsed
             /\ runs[i].errors = <<>>
             /\ runs[i].result # NoResult
             /\ Cardinality(EventsOf({"displayed"}, i)) = 1
             /\ (runs[i].data.text = NoClausesText) =>
                    runs[i].result.concerningClauses = <<>>
             /\ (consoleLog[Len(consoleLog)] = <<"displayed", i>>) =>
                    /\ currentAnalysisResult = runs[i].result
                    /\ resultsDiv = [hidden |-> FALSE, result |-> runs[i].result]
                    /\ errorDiv.hidden
                    /\ items = <<>> <=> runs[i].result.concerningClauses = <<>>

\* one analysis was answered with an empty text and ended in the error, the next
\* with a text that names no clause: its result is shown and stored
C14_Witness ==
    /\ Len(runs) = 2
    /\ runs[1].data = [shape |-> "text", text |-> <<>>]
    /\ runs[1].pc = "failed"
    /\ runs[2].data.text = NoClausesText
    /\ consoleLog[Len(consoleLog)] = <<"displayed", 2>>
    /\ currentAnalysisResult # NoResult
    /\ currentAnalysisResult.concerningClauses = <<>>
    /\ resultsDiv = [hidden |-> FALSE, result |-> currentAnalysisResult]

\* C15: no retries: an analysis sends at most one request to the model API and
\* fetches the PDF at most once, and a failure is shown once, as one message,
\* after which the analysis does nothing more.
C15_NoRetries ==
    \A i \in DOMAIN runs :
        /\ runs[i].apiRequests <= 1
        /\ runs[i].pdfFetches <= 1
        /\ (runs[i].trigger = "selection" \/ ~runs[i].isPdf) => runs[i].pdfFetches = 0
        /\ Len(runs[i].errors) = Cardinality(EventsOf({"error"}, i))
        /\ Len(runs[i].errors) <= 1
        /\ runs[i].pc = "failed" <=> Len(runs[i].errors) = 1
        /\ Cardinality(EventsOf({"clicked", "selected"}, i)) = 1
        /\ runs[i].pc = "done" =>
               runs[i].apiRequests = 1 /\ Cardinality(EventsOf({"displayed"}, i)) = 1

\* the request of a PDF analysis failed after the PDF had been fetched: one fetch,
\* one request, one message
C15_Witness ==
    /\ Len(runs) = 2
    /\ runs[1].trigger = "selection" /\ runs[1].pc = "failed" /\ runs[1].apiRequests = 1
    /\ runs[2].isPdf /\ runs[2].pc = "failed"
    /\ runs[2].pdfFetches = 1 /\ runs[2].apiRequests = 1
    /\ runs[2].errors = << <<"An error occurred: ", "API request failed with status ", "500">> >>

Last(S) == CHOOSE k \in S : \A j \in S : j <= k

\* the displays that came after the latest trigger
DisplaysSinceTrigger ==
    LET triggers == {k \in DOMAIN consoleLog : consoleLog[k][1] \in {"clicked", "selected"}}
    IN  {k \in DOMAIN consoleLog :
            /\ consoleLog[k][1] = "displayed"
            /\ \A t \in triggers : t < k}

AllDisplays == {k \in DOMAIN consoleLog : consoleLog[k][1] = "displayed"}

\* C18: there is one current result, and the last write wins: a trigger is taken
\* while an earlier analysis is in flight, every trigger empties the slot and
\* every display fills it, so that after two overlapping analyses the slot and
\* the rendered result are those of the analysis that was displayed last,
\* whichever was started last.
C18_LastWriteWins ==
    /\ currentAnalysisResult =
           IF DisplaysSinceTrigger = {} THEN NoResult
           ELSE runs[consoleLog[Last(DisplaysSinceTrigger)][2]].result
    /\ resultsDiv.result =
           IF AllDisplays = {} THEN NoResult
           ELSE runs[consoleLog[Last(AllDisplays)][2]].result
    /\ ~resultsDiv.hidden <=>
           consoleLog # <<>> /\ consoleLog[Len(consoleLog)][1] = "displayed"

\* the second analysis was started while the first was in flight and was
\* displayed first: the slot and the page hold the result of the first
C18_Witness ==
    /\ consoleLog = << <<"clicked", 1>>, <<"clicked", 2>>, <<"displayed", 2>>,
                       <<"displayed", 1>> >>
    /\ runs[1].result # runs[2].result
    /\ currentAnalysisResult = runs[1].result
    /\ resultsDiv = [hidden |-> FALSE, result |-> runs[1].result]

(***************************************************************************)
(* Properties of the pop-out hand-off                                      *)
(***************************************************************************)

\* the windows whose script has had the answer of storage.local.get
HaveRead == {w \in DOMAIN popoutWindows : popoutWindows[w].pc \in {"remove", "done"}}

\* C17: the hand-off is one slot: every write replaces what the slot holds, a
\* window that reads gets the value written last or nothing, so a value written
\* and overwritten before any read reaches no window; a window that finds a value
\* renders it and then removes the slot, one that finds none shows an error.
C17_SingleSlot ==
    /\ popoutData # NoResult => setCalls # <<>> /\ popoutData = setCalls[Len(setCalls)]
    /\ \A w \in HaveRead :
           LET win == popoutWindows[w]
           IN  /\ win.got # NoResult =>
                      /\ win.readAt >= 1
                      /\ win.got = setCalls[win.readAt]
                      /\ win.rendered = win.got
                      /\ win.error = <<>>
                      /\ win.pc = "done" =>
                             (popoutData = NoResult \/ Len(setCalls) > win.readAt)
               /\ win.got = NoResult =>
                      /\ win.pc = "done"
                      /\ win.rendered = NoResult
                      /\ win.error # <<>>
    /\ \A k \in DOMAIN setCalls :
           (\A w \in HaveRead : popoutWindows[w].readAt # k) =>
               \A w \in HaveRead :
                   popoutWindows[w].got = setCalls[k] =>
                       setCalls[popoutWindows[w].readAt] = setCalls[k]

\* two results were written before the first window read: that window rendered
\* the second and removed it, the other window found nothing, and the first
\* result reached no window
C17_Witness ==
    /\ Len(setCalls) = 2
    /\ setCalls[1] # setCalls[2]
    /\ Len(popoutWindows) = 2
    /\ \A w \in {1, 2} : popoutWindows[w].pc = "done" /\ popoutWindows[w].readAt = 2
    /\ popoutWindows[1].rendered = setCalls[2]
    /\ popoutWindows[2].got = NoResult
    /\ popoutWindows[2].error = CouldNotLoad
    /\ popoutData = NoResult

(***************************************************************************)
(* Properties of the emphasis passes of the converter                      *)
(***************************************************************************)
OpeningTags == {"<strong>", "<em>", "<code>"}

ClosingTags == {"</strong>", "</em>", "</code>"}

OpenerOf(tag) ==
    CASE tag = "</strong>" -> "<strong>"
      [] tag = "</em>" -> "<em>"
      [] tag = "</code>" -> "<code>"

\* every closing tag closes the element opened last, and nothing stays open
RECURSIVE ProperlyNested(_, _)
ProperlyNested(html, open) ==
    IF html = <<>> THEN open = <<>>
    ELSE IF Head(html) \in OpeningTags
         THEN ProperlyNested(Tail(html), <<Head(html)>> \o open)
    ELSE IF Head(html) \in ClosingTags
         THEN /\ open # <<>>
              /\ Head(open) = OpenerOf(Head(html))
              /\ ProperlyNested(Tail(html), Tail(open))
    ELSE ProperlyNested(Tail(html), open)

\* C21: the converter never double-converts: the bold and the italic markup
\* of its output are properly nested, no italic element starts inside a bold
\* element and ends outside it, or the other way round
C21_NoDoubleConversion ==
    mdPc = "html" => ProperlyNested(mdHtml, <<>>)

(***************************************************************************)
(* Properties of the iframe scan and of the listener's response            *)
(***************************************************************************)
\* the catch block of the iframe loop has logged a failure
IframeWarned == iframeWarnings' = iframeWarnings + 1

\* C22: an iframe that fails (timeout, no content document, access error)
\* fails alone: the scan goes on with the next iframe and nothing is returned
\* or sent for it; the extraction ends for any number of iframes and the
\* listener sends one response, never a second one
C22_IframesSettleOneResponse ==
    /\ [][IframeWarned =>
             /\ exPc = "awaiting" /\ exPc' = "awaiting"
             /\ iframesLeft' = iframesLeft - 1
             /\ exResult = NotReturned /\ exResult' = NotReturned
             /\ exResponses' = exResponses]_<<exPosition, iframeWarnings, exResponses>>
    /\ [](Len(exResponses) <= 1)
    /\ <>[](exPc = "responded" /\ Len(exResponses) = 1)

\* two iframes failed and the response was sent
C22_Witness ==
    /\ exPc = "responded"
    /\ iframeWarnings >= 2
    /\ Len(exResponses) = 1

(***************************************************************************)
(* Properties of the context-menu trigger                                  *)
(***************************************************************************)
\* C23: the selection of a context-menu click is processed at most once: the
\* flag is cleared in the step that starts the processing, selectedText is
\* removed in the step that ends it, and no selection is handed to
\* processSelectedText a second time, however often the popup is reopened
C23_ProcessedAtMostOnce ==
    /\ [](\A i, j \in DOMAIN processed : processed[i] = processed[j] => i = j)
    /\ [][/\ processed' # processed => ~contextMenuClicked'
          /\ (popupPc = "processing" /\ popupPc' = "idle") => selectedText' = NoSelection
         ]_selVars

\* one click, the selection processed to its end, and the popup opened again
C23_Witness ==
    /\ menuClicks = 1
    /\ processed = <<1>>
    /\ selectedText = NoSelection
    /\ popupOpens >= 2
    /\ popupPc = "idle"

(***************************************************************************)
(* Properties of the outcome of getTextFromPdfUrl                          *)
(***************************************************************************)
\* C24: getTextFromPdfUrl resolves, with the text or with null on a failure: a
\* failed fetch, a status that is not OK and a document that cannot be loaded
\* never reject its promise
C24_ResolvesTextOrNull ==
    ~(pdfPc = "threw" /\ Head(pdfResult) = "Failed to process PDF: ")

(***************************************************************************)
(* Properties of the loading indicator and of the results panel            *)
(***************************************************************************)
\* the runs whose request to the AI service has been sent and not answered
RequestsInFlight == {i \in DOMAIN runs : runs[i].pc = "api"}

\* C25: while a request of an analysis is in flight the loading indicator is
\* visible, also when the analyses of several triggers overlap
C25_LoadingWhileInFlight ==
    RequestsInFlight # {} => ~loadingDiv.hidden

\* C26: whenever currentAnalysisResult holds a result, the results panel is
\* visible and shows that result, so the pop-out button never hands off a
\* result that is not on display
C26_SlotIsDisplayed ==
    currentAnalysisResult # NoResult =>
        ~resultsDiv.hidden /\ resultsDiv.result = currentAnalysisResult

(***************************************************************************)
(* Properties of the clean-up of the pop-out window                        *)
(***************************************************************************)
\* the remove of window w takes effect in this step
Removes(w) == popoutWindows[w].pc = "remove" /\ popoutWindows'[w].pc = "done"

\* C27: the record a pop-out window deletes is the record it read and
\* rendered: no result written to the slot is deleted without having been
\* rendered
C27_DeletesWhatItRendered ==
    [][\A w \in DOMAIN popoutWindows :
           Removes(w) => popoutData = popoutWindows[w].rendered]_<<popoutData, popoutWindows>>

(***************************************************************************)
(* Properties of the button feedback                                       *)
(***************************************************************************)
\* no clipboard write is pending and every feedback timer has fired
FeedbackOver == clipboardWrites = 0 /\ feedbackTimers = <<>>

\* C28: when the feedback period is over the button is enabled and shows the
\* label it had before any feedback, for every sequence of clicks
C28_LabelRestored ==
    FeedbackOver => copyBtn = [textContent |-> ButtonLabel, disabled |-> FALSE]

(***************************************************************************)
(* Properties of the options page                                          *)
(***************************************************************************)
\* the values a save can store: what the user typed, trimmed, if not empty
TypedKeys == {Trim(value) : value \in TypedValues} \ {<<>>}

\* C29: the stored key changes only to a value the user typed that is not
\* empty: it is the key stored at the start or a typed one, never the masked
\* form the page displays
C29_OnlyTypedKeysStored == apiKey \in StoredAtStart \cup TypedKeys

(***************************************************************************)
(* Properties of the error message of a failed analysis                    *)
(***************************************************************************)
\* #error shows the message of an analysis that failed
AnalysisErrorShown ==
    /\ ~errorDiv.hidden
    /\ errorDiv.textContent # NoAnalysisYet
    /\ consoleLog # <<>>
    /\ consoleLog[Len(consoleLog)][1] = "error"

\* the user starts an action in this step: a trigger of an analysis or a click
\* on the pop-out button
UserActs == Len(runs') > Len(runs) \/ Len(popoutClicks') > Len(popoutClicks)

\* C30: the error message of a failed analysis stays visible until the user
\* starts another action: no step of an earlier action, and no timer an
\* earlier action started, hides it
C30_ErrorStaysVisible ==
    [][(AnalysisErrorShown /\ errorDiv'.hidden) => UserActs]_<<errorDiv, runs, popoutClicks>>

=============================================================================
